---- MODULE Spec2Model ----
(***************************************************************************)
(* A model of github.com/yulrizka/cron: the scheduler's Run loop and its   *)
(* check cycle (scheduler.go), run by several Scheduler instances against  *)
(* one shared store, which is either the in-memory MemStore or the         *)
(* SqlStore (one SqlStore handle per instance, one database).              *)
(***************************************************************************)
EXTENDS Integers, Sequences, FiniteSets, TLC

(***************************************************************************)
(* Bounds of the model.                                                    *)
(***************************************************************************)
\* Scheduler instances sharing the store.
NumSched == 2
\* Instants per minute: the resolution of a timestamp below the minute.
SubPerMin == 2
\* The ticks the instances receive, all together; no ticker ticks after the
\* minute of that number.
MaxChecks == 2
\* The store calls that fail while ctx is live.
MaxFailures == 1

Schedulers == 1..NumSched
NoOne == 0

(***************************************************************************)
(* time.Time: an instant (in units of 1/SubPerMin minute, instant 0 being  *)
(* 2000-01-01 00:00:00 UTC, a Saturday) together with the location it is   *)
(* displayed in.                                                           *)
(***************************************************************************)
Zones == {"UTC", "Asia/Jakarta"}
\* time.Local of the scheduler processes.
Local == "UTC"
\* Minutes east of UTC.
ZoneOffset(loc) == IF loc = "Asia/Jakarta" THEN 420 ELSE 0

Time(inst, loc) == [inst |-> inst, loc |-> loc]
In(t, loc) == [t EXCEPT !.loc = loc]
AddMinute(t) == [t EXCEPT !.inst = @ + SubPerMin]
TimeEqual(a, b) == a.inst = b.inst
TimeAfter(a, b) == a.inst > b.inst
TimeBefore(a, b) == a.inst < b.inst

\* The civil minute count of t in its own location, and the calendar fields.
CivilMinute(t) == (t.inst \div SubPerMin) + ZoneOffset(t.loc)
Minute(t) == CivilMinute(t) % 60
Hour(t) == (CivilMinute(t) \div 60) % 24
Day(t) == 1 + (CivilMinute(t) \div 1440)
Month(t) == 1 + (CivilMinute(t) \div 44640)
Weekday(t) == (6 + (CivilMinute(t) \div 1440)) % 7
\* t.Format("2006-01-02-15-04"): the calendar fields down to the minute, in
\* the location t carries.
Format(t) == <<2000, Month(t), Day(t), Hour(t), Minute(t)>>

(***************************************************************************)
(* Parser: field bitmaps and entries.  A field is a uint64, kept here as   *)
(* its four 16-bit words, the lowest first.                                *)
(***************************************************************************)
WordBits == 16
Words == 4

\* field(^uint64(0))
star == [k \in 1..Words |-> (2 ^ WordBits) - 1]

\* field(1 << uint64(value))
Bit(value) ==
    [k \in 1..Words |-> IF k = (value \div WordBits) + 1
                        THEN 2 ^ (value % WordBits) ELSE 0]

\* f & (1 << uint64(value)) != 0
match(f, value) ==
    /\ value \in 0..((Words * WordBits) - 1)
    /\ (f[(value \div WordBits) + 1] \div (2 ^ (value % WordBits))) % 2 = 1

\* The width of an int, and its least and greatest value.
IntBits == 8
MaxInt == (2 ^ (IntBits - 1)) - 1
MinInt == 0 - (2 ^ (IntBits - 1))

\* An int sum or product wraps around.
WrapInt(n) == ((n - MinInt) % (2 ^ IntBits)) + MinInt

\* A text is the sequence of its characters.
Digits == <<"0", "1", "2", "3", "4", "5", "6", "7", "8", "9">>
IsDigit(c) == \E d \in 1..10 : Digits[d] = c
DigitValue(c) == (CHOOSE d \in 1..10 : Digits[d] = c) - 1

\* strconv.Itoa
RECURSIVE Itoa(_)
Itoa(n) ==
    IF n < 0 THEN <<"-">> \o Itoa(0 - n)
    ELSE IF n < 10 THEN <<Digits[n + 1]>>
    ELSE Itoa(n \div 10) \o <<Digits[(n % 10) + 1]>>

\* The number a text of digits denotes, or MaxInt + 2 when it is that or more.
RECURSIVE DigitsValue(_, _)
DigitsValue(ds, acc) ==
    IF ds = <<>> THEN acc
    ELSE LET n == (acc * 10) + DigitValue(Head(ds))
         IN  DigitsValue(Tail(ds), IF n > MaxInt + 2 THEN MaxInt + 2 ELSE n)

\* strconv.Atoi on the digits ds of a text, negative when neg: the value
\* and the error.
AtoiValue(n) ==
    IF n > MaxInt \/ n < MinInt THEN [n |-> 0, err |-> "value out of range"]
    ELSE [n |-> n, err |-> "nil"]

AtoiDigits(neg, ds) ==
    IF ds = <<>> \/ \E i \in 1..Len(ds) : ~IsDigit(ds[i])
    THEN [n |-> 0, err |-> "invalid syntax"]
    ELSE AtoiValue((IF neg THEN 0 - 1 ELSE 1) * DigitsValue(ds, 0))

\* strconv.Atoi: an optional sign and decimal digits.
Atoi(s) ==
    AtoiDigits(s # <<>> /\ s[1] = "-",
               IF s # <<>> /\ s[1] \in {"+", "-"} THEN Tail(s) ELSE s)

\* strings.IndexByte, counting from 1: 0 when c is not in s.
IndexByte(s, c) ==
    IF \E i \in 1..Len(s) : s[i] = c
    THEN CHOOSE i \in 1..Len(s) : s[i] = c /\ \A j \in 1..(i - 1) : s[j] # c
    ELSE 0

\* strings.Split(s, ",")
RECURSIVE Split(_)
Split(s) ==
    LET i == IndexByte(s, ",")
    IN  IF i = 0 THEN <<s>>
        ELSE <<SubSeq(s, 1, i - 1)>> \o Split(SubSeq(s, i + 1, Len(s)))

\* strings.TrimSpace
RECURSIVE TrimSpace(_)
TrimSpace(s) ==
    IF s # <<>> /\ Head(s) \in {" ", "\t", "\n"} THEN TrimSpace(Tail(s))
    ELSE IF s # <<>> /\ s[Len(s)] \in {" ", "\t", "\n"} THEN TrimSpace(SubSeq(s, 1, Len(s) - 1))
    ELSE s

\* field(0)
NoBits == [k \in 1..Words |-> 0]

\* f |= 1 << uint64(i): a shift by 64 or more, as that of a negative i
\* is, yields 0.
SetBit(f, i) ==
    IF i \in 0..((Words * WordBits) - 1) /\ ~match(f, i)
    THEN [f EXCEPT ![(i \div WordBits) + 1] = @ + (2 ^ (i % WordBits))]
    ELSE f

\* for i := startInterval; i <= endInterval; i += interval { f |= 1 << uint64(i) }
RECURSIVE SetBits(_, _, _, _)
SetBits(f, i, endInterval, interval) ==
    IF i > endInterval THEN f
    ELSE IF match(f, i) THEN SetBits(f, WrapInt(i + interval), endInterval, interval)
    ELSE SetBits(SetBit(f, i), WrapInt(i + interval), endInterval, interval)

\* A part of a field in error: return 0, fmt.Errorf(err, arg). The text the
\* message quotes is arg.
partError(err, arg) ==
    [interval |-> 1, startInterval |-> 0, endInterval |-> 0, err |-> err,
     arg |-> arg]

\* The range check without the test of the end against max.
partCheckedNoMax(part, startInterval, endInterval, interval, min, max) ==
    IF startInterval < min \/ startInterval > endInterval
    THEN partError("value out of range", part)
    ELSE [interval |-> interval, startInterval |-> startInterval,
          endInterval |-> endInterval, err |-> "nil", arg |-> <<>>]

\* if startInterval < min || endInterval > max || startInterval > endInterval
\* the message names min, max and the part, which is the part without its
\* step by now.
partChecked(part, startInterval, endInterval, interval, min, max) ==
    IF startInterval < min \/ endInterval > max \/ startInterval > endInterval
    THEN partError("value out of range", part)
    ELSE [interval |-> interval, startInterval |-> startInterval,
          endInterval |-> endInterval, err |-> "nil", arg |-> <<>>]

\* The start and the end read with strconv.Atoi.
partNumbers(s, part, startInterval, endInterval, interval, min, max) ==
    IF startInterval.err # "nil" \/ endInterval.err # "nil"
    THEN partError("failed parsing expression", s)
    ELSE partChecked(part, startInterval.n, endInterval.n, interval, min, max)

\* determine start & end: a start that is '*' or '?' leaves both at min and
\* max, an empty end leaves the end at max.
partStartEnd(s, part, start, end, interval, min, max) ==
    IF start = <<"*">> \/ start = <<"?">>
    THEN partChecked(part, min, max, interval, min, max)
    ELSE partNumbers(s, part, Atoi(start),
                     IF end = <<>> THEN [n |-> max, err |-> "nil"] ELSE Atoi(end),
                     interval, min, max)

\* parse range if exist: dash is the place of '-' in the range, 0 if none.
partDash(s, range, dash, interval, min, max) ==
    partStartEnd(s, range,
                 IF dash > 0 THEN SubSeq(range, 1, dash - 1) ELSE range,
                 IF dash > 0 THEN SubSeq(range, dash + 1, Len(range)) ELSE range,
                 interval, min, max)

partRange(s, range, interval, min, max) ==
    partDash(s, range, IndexByte(range, "-"), interval, min, max)

\* The step of a part taken without the test of what stands before '/'.
partStepAnyLeft(s, r, stepText, step, min, max) ==
    IF step.err # "nil"
    THEN partError("failed parsing interval expression", stepText)
    ELSE partRange(s, r, step.n, min, max)

\* parse interval if exists: r is the text before '/', stepText the text
\* after it and step the number read from it.
partStep(s, r, stepText, step, min, max) ==
    IF r # <<"*">> /\ r # <<"?">> /\ IndexByte(r, "-") = 0
    THEN partError("step given without range", s)
    ELSE IF step.err # "nil"
    THEN partError("failed parsing interval expression", stepText)
    ELSE partRange(s, r, step.n, min, max)

partStepText(s, r, stepText, min, max) ==
    partStep(s, r, stepText, Atoi(stepText), min, max)

\* slash is the place of '/' in the part, 0 if none.
partSlash(s, part, slash, min, max) ==
    IF slash > 0
    THEN partStepText(s, SubSeq(part, 1, slash - 1),
                      SubSeq(part, slash + 1, Len(part)), min, max)
    ELSE partRange(s, part, 1, min, max)

\* One part of the field s: its interval, start and end, or the error that
\* ends parseField.
parsePart(s, part, min, max) ==
    partSlash(s, part, IndexByte(part, "/"), min, max)

\* The loop of parseField over the parts: the first part in error ends it,
\* and so does a part whose interval is 0, the loop over its values never
\* ending.
RECURSIVE parseParts(_, _, _, _, _)
\* parsedPart with the bits of the parts before p dropped.
parsedPartAlone(s, p, rest, f, min, max) ==
    IF p.err # "nil" THEN [f |-> NoBits, err |-> p.err, arg |-> p.arg]
    ELSE IF p.interval = 0 THEN [f |-> NoBits, err |-> "never returns", arg |-> <<>>]
    ELSE parseParts(s, rest,
                    SetBits(NoBits, p.startInterval, p.endInterval, p.interval),
                    min, max)

parsedPart(s, p, rest, f, min, max) ==
    IF p.err # "nil" THEN [f |-> NoBits, err |-> p.err, arg |-> p.arg]
    ELSE IF p.interval = 0 THEN [f |-> NoBits, err |-> "never returns", arg |-> <<>>]
    ELSE parseParts(s, rest,
                    SetBits(f, p.startInterval, p.endInterval, p.interval),
                    min, max)

parseParts(s, parts, f, min, max) ==
    IF parts = <<>> THEN [f |-> f, err |-> "nil", arg |-> <<>>]
    ELSE parsedPart(s, parsePart(s, Head(parts), min, max), Tail(parts), f,
                    min, max)

\* parseField with '*' alone as the wildcard, '?' left to the parts.
parseTrimmedStarOnly(s, min, max) ==
    IF s = <<>> THEN [f |-> NoBits, err |-> "empty field", arg |-> <<>>]
    ELSE IF s = <<"*">> THEN [f |-> star, err |-> "nil", arg |-> <<>>]
    ELSE parseParts(s, Split(s), NoBits, min, max)

\* s = strings.TrimSpace(s) and the rest of parseField.
parseTrimmed(s, min, max) ==
    IF s = <<>> THEN [f |-> NoBits, err |-> "empty field", arg |-> <<>>]
    ELSE IF s = <<"*">> \/ s = <<"?">> THEN [f |-> star, err |-> "nil", arg |-> <<>>]
    ELSE parseParts(s, Split(s), NoBits, min, max)

\* parseField: the bitmap of a field text and the error.
parseField(s, min, max) == parseTrimmed(TrimSpace(s), min, max)

\* The text of an expression, character by character, for the expressions this
\* model hands to Parse.
Chars(expression) ==
    CASE expression = "* * * * *" ->
           <<"*", " ", "*", " ", "*", " ", "*", " ", "*">>
      [] expression = "1 0 1 1 *" ->
           <<"1", " ", "0", " ", "1", " ", "1", " ", "*">>
      [] expression = "2 0 1 1 *" ->
           <<"2", " ", "0", " ", "1", " ", "1", " ", "*">>
      [] expression = "59 23 31 12 6" ->
           <<"5", "9", " ", "2", "3", " ", "3", "1", " ", "1", "2", " ", "6">>
      [] expression = "60 23 31 12 6" ->
           <<"6", "0", " ", "2", "3", " ", "3", "1", " ", "1", "2", " ", "6">>
      [] expression = "59 24 31 12 6" ->
           <<"5", "9", " ", "2", "4", " ", "3", "1", " ", "1", "2", " ", "6">>
      [] expression = "59 23 0 12 6" ->
           <<"5", "9", " ", "2", "3", " ", "0", " ", "1", "2", " ", "6">>
      [] expression = "59 23 32 12 6" ->
           <<"5", "9", " ", "2", "3", " ", "3", "2", " ", "1", "2", " ", "6">>
      [] expression = "59 23 31 0 6" ->
           <<"5", "9", " ", "2", "3", " ", "3", "1", " ", "0", " ", "6">>
      [] expression = "59 23 31 13 6" ->
           <<"5", "9", " ", "2", "3", " ", "3", "1", " ", "1", "3", " ", "6">>
      [] expression = "59 23 31 12 7" ->
           <<"5", "9", " ", "2", "3", " ", "3", "1", " ", "1", "2", " ", "7">>
      [] expression = "*/2 23 31 12 6" ->
           <<"*", "/", "2", " ", "2", "3", " ", "3", "1", " ", "1", "2", " ", "6">>
      [] expression = "30/2 23 31 12 7" ->
           <<"3", "0", "/", "2", " ", "2", "3", " ", "3", "1", " ", "1", "2", " ", "7">>
      [] expression = "10-30/3 23 31 12 6" ->
           <<"1", "0", "-", "3", "0", "/", "3", " ", "2", "3", " ", "3", "1", " ", "1", "2", " ", "6">>
      [] expression = "5 * */5 1-12/2 0-3" ->
           <<"5", " ", "*", " ", "*", "/", "5", " ", "1", "-", "1", "2", "/", "2", " ", "0", "-", "3">>
      [] expression = "0 1 2 1 0" ->
           <<"0", " ", "1", " ", "2", " ", "1", " ", "0">>
      [] expression = "* * 2 * 1" ->
           <<"*", " ", "*", " ", "2", " ", "*", " ", "1">>
      [] expression = "0 18 1 1 *" ->
           <<"0", " ", "1", "8", " ", "1", " ", "1", " ", "*">>
      [] expression = "* * * 2 *" ->
           <<"*", " ", "*", " ", "*", " ", "2", " ", "*">>
      [] expression = "* 0 * * 6" ->
           <<"*", " ", "0", " ", "*", " ", "*", " ", "6">>
      [] expression = "1 * 1 * *" ->
           <<"1", " ", "*", " ", "1", " ", "*", " ", "*">>
      [] expression = "" ->
           <<>>
      [] expression = "   " ->
           <<" ", " ", " ">>
      [] expression = "*" ->
           <<"*">>
      [] expression = "* *" ->
           <<"*", " ", "*">>
      [] expression = "* * *" ->
           <<"*", " ", "*", " ", "*">>
      [] expression = "* * * *" ->
           <<"*", " ", "*", " ", "*", " ", "*">>
      [] expression = "* * * * * *" ->
           <<"*", " ", "*", " ", "*", " ", "*", " ", "*", " ", "*">>
      [] expression = "* * * * * * *" ->
           <<"*", " ", "*", " ", "*", " ", "*", " ", "*", " ", "*", " ", "*">>
      [] expression = " *  * *\t* * " ->
           <<" ", "*", " ", " ", "*", " ", "*", "\t", "*", " ", "*", " ">>
      [] expression = "* * * * 9 * *" ->
           <<"*", " ", "*", " ", "*", " ", "*", " ", "9", " ", "*", " ", "*">>
      [] expression = "30/2,70 * * * *" ->
           <<"3", "0", "/", "2", ",", "7", "0", " ", "*", " ", "*", " ", "*", " ", "*">>
      [] expression = "70/2 * * * *" ->
           <<"7", "0", "/", "2", " ", "*", " ", "*", " ", "*", " ", "*">>
      [] expression = "5,70 * * * *" ->
           <<"5", ",", "7", "0", " ", "*", " ", "*", " ", "*", " ", "*">>
      [] expression = "70,80 * * * *" ->
           <<"7", "0", ",", "8", "0", " ", "*", " ", "*", " ", "*", " ", "*">>
      [] expression = "10-5 * * * *" ->
           <<"1", "0", "-", "5", " ", "*", " ", "*", " ", "*", " ", "*">>
      [] expression = "* * 0-5 * *" ->
           <<"*", " ", "*", " ", "0", "-", "5", " ", "*", " ", "*">>
      [] expression = "* * * 5-13/2 *" ->
           <<"*", " ", "*", " ", "*", " ", "5", "-", "1", "3", "/", "2", " ", "*">>
      [] expression = "1-70/x * * * *" ->
           <<"1", "-", "7", "0", "/", "x", " ", "*", " ", "*", " ", "*", " ", "*">>
      [] expression = "*/0,70 * * * *" ->
           <<"*", "/", "0", ",", "7", "0", " ", "*", " ", "*", " ", "*", " ", "*">>
      [] expression = "x-70 * * * *" ->
           <<"x", "-", "7", "0", " ", "*", " ", "*", " ", "*", " ", "*">>
      [] expression = "5,30/2 * * * *" ->
           <<"5", ",", "3", "0", "/", "2", " ", "*", " ", "*", " ", "*", " ", "*">>
      [] expression = "70,30/2 * * * *" ->
           <<"7", "0", ",", "3", "0", "/", "2", " ", "*", " ", "*", " ", "*", " ", "*">>
      [] expression = "*/0,30/2 * * * *" ->
           <<"*", "/", "0", ",", "3", "0", "/", "2", " ", "*", " ", "*", " ", "*", " ", "*">>
      [] expression = "* 1-5,7/3,9 * * *" ->
           <<"*", " ", "1", "-", "5", ",", "7", "/", "3", ",", "9", " ", "*", " ", "*", " ", "*">>
      [] expression = "0-59 0-23 1-31 1-12 0-6" ->
           <<"0", "-", "5", "9", " ", "0", "-", "2", "3", " ", "1", "-", "3", "1", " ", "1", "-", "1", "2", " ", "0", "-", "6">>
      [] expression = "1,3,5 * * * ?" ->
           <<"1", ",", "3", ",", "5", " ", "*", " ", "*", " ", "*", " ", "?">>
      [] expression = "0-5/-64 * * * *" ->
           <<"0", "-", "5", "/", "-", "6", "4", " ", "*", " ", "*", " ", "*", " ", "*">>
      [] expression = "*/0 * * * *" ->
           <<"*", "/", "0", " ", "*", " ", "*", " ", "*", " ", "*">>

\* The expressions above.
Expressions ==
    {"* * * * *", "1 0 1 1 *", "2 0 1 1 *", "59 23 31 12 6", "60 23 31 12 6",
     "59 24 31 12 6", "59 23 0 12 6", "59 23 32 12 6", "59 23 31 0 6", "59 23 31 13 6",
     "59 23 31 12 7", "*/2 23 31 12 6", "30/2 23 31 12 7", "10-30/3 23 31 12 6", "5 * */5 1-12/2 0-3",
     "0 1 2 1 0", "* * 2 * 1", "0 18 1 1 *", "* * * 2 *", "* 0 * * 6",
     "1 * 1 * *", "", "   ", "*", "* *",
     "* * *", "* * * *", "* * * * * *", "* * * * * * *", " *  * *\t* * ",
     "* * * * 9 * *",
     "30/2,70 * * * *",
     "70/2 * * * *",
     "5,70 * * * *",
     "70,80 * * * *",
     "10-5 * * * *",
     "* * 0-5 * *",
     "* * * 5-13/2 *",
     "1-70/x * * * *",
     "*/0,70 * * * *",
     "x-70 * * * *",
     "5,30/2 * * * *",
     "70,30/2 * * * *",
     "*/0,30/2 * * * *",
     "* 1-5,7/3,9 * * *",
     "0-59 0-23 1-31 1-12 0-6",
     "1,3,5 * * * ?",
     "0-5/-64 * * * *",
     "*/0 * * * *"}

\* unicode.IsSpace on the characters of this model.
IsSpace(c) == c \in {" ", "\t", "\n"}

\* The place of the first white space of s, Len(s) + 1 if none.
IndexSpace(s) ==
    IF \E i \in 1..Len(s) : IsSpace(s[i])
    THEN CHOOSE i \in 1..Len(s) : IsSpace(s[i]) /\ \A j \in 1..(i - 1) : ~IsSpace(s[j])
    ELSE Len(s) + 1

\* strings.Fields: the maximal runs of characters that are not white space.
RECURSIVE Fields(_)
FieldsAt(s, n) == <<SubSeq(s, 1, n - 1)>> \o Fields(SubSeq(s, n, Len(s)))

Fields(s) ==
    IF s = <<>> THEN <<>>
    ELSE IF IsSpace(Head(s)) THEN Fields(Tail(s))
    ELSE FieldsAt(s, IndexSpace(s))

\* The bounds Parse compiles its five fields with: minute, hour, day of
\* month, month, day of week.
FieldBounds == << <<0, 59>>, <<0, 23>>, <<1, 31>>, <<1, 12>>, <<0, 6>> >>

\* The names Parse gives the five fields in its errors.
FieldNames == <<"minute", "hour", "day of month", "month", "day of week">>

\* The Entry that Parse returns: the fields before the one in error are
\* compiled, that one and the later ones are left 0. failed is 0 when no
\* field is in error.
Entry(expression, loc, name, compiled, failed) ==
    [Name |-> name, Location |-> loc, expression |-> expression,
     minute |-> IF failed = 0 \/ 1 < failed THEN compiled[1].f ELSE NoBits,
     hour |-> IF failed = 0 \/ 2 < failed THEN compiled[2].f ELSE NoBits,
     dom |-> IF failed = 0 \/ 3 < failed THEN compiled[3].f ELSE NoBits,
     month |-> IF failed = 0 \/ 4 < failed THEN compiled[4].f ELSE NoBits,
     dow |-> IF failed = 0 \/ 5 < failed THEN compiled[5].f ELSE NoBits]

\* The fields of the expression, each compiled with its bounds.
parseFields(fields) ==
    [i \in 1..5 |-> parseField(fields[i], FieldBounds[i][1], FieldBounds[i][2])]

\* The first field in error, 0 if none: Parse returns at that one.
FirstError(compiled) ==
    IF \E i \in 1..5 : compiled[i].err # "nil"
    THEN CHOOSE i \in 1..5 :
             compiled[i].err # "nil" /\ \A j \in 1..(i - 1) : compiled[j].err = "nil"
    ELSE 0

\* What Parse returns after the five parseField calls: the entry and the
\* error, which names the field, quotes its text and ends with the error of
\* parseField (cause and arg). A parseField that never returns leaves Parse
\* without a return too.
parsedFields(expression, loc, name, fields, compiled, failed) ==
    [e |-> Entry(expression, loc, name, compiled, failed),
     err |-> IF failed = 0 THEN "nil"
             ELSE IF compiled[failed].err = "never returns" THEN "never returns"
             ELSE "failed parsing field",
     count |-> 5,
     field |-> IF failed = 0 THEN "" ELSE FieldNames[failed],
     text |-> IF failed = 0 THEN <<>> ELSE fields[failed],
     cause |-> IF failed = 0 THEN "nil" ELSE compiled[failed].err,
     arg |-> IF failed = 0 THEN <<>> ELSE compiled[failed].arg]

parsedCompiled(expression, loc, name, fields, compiled) ==
    parsedFields(expression, loc, name, fields, compiled, FirstError(compiled))

\* Parse refusing only the expressions of fewer than 5 fields.
parseSplitAtLeast(expression, loc, name, fields) ==
    IF Len(fields) < 5
    THEN [e |-> [Name |-> name, Location |-> loc, expression |-> "",
                 minute |-> NoBits, hour |-> NoBits, dom |-> NoBits,
                 month |-> NoBits, dow |-> NoBits],
          err |-> "got want expressions", count |-> Len(fields), field |-> "",
          text |-> <<>>, cause |-> "nil", arg |-> <<>>]
    ELSE parsedCompiled(expression, loc, name, fields, parseFields(fields))

\* if len(fields) != 5: "got %d want %d expressions", with an entry of a name
\* and a location only.
parseSplit(expression, loc, name, fields) ==
    IF Len(fields) # 5
    THEN [e |-> [Name |-> name, Location |-> loc, expression |-> "",
                 minute |-> NoBits, hour |-> NoBits, dom |-> NoBits,
                 month |-> NoBits, dow |-> NoBits],
          err |-> "got want expressions", count |-> Len(fields), field |-> "",
          text |-> <<>>, cause |-> "nil", arg |-> <<>>]
    ELSE parsedCompiled(expression, loc, name, fields, parseFields(fields))

\* Parse: the entry and the error. A nil location is time.Local.
Parse(expression, loc, name) ==
    parseSplit(expression, IF loc = "nil" THEN Local ELSE loc, name,
               Fields(Chars(expression)))

\* strings.Join
RECURSIVE Join(_, _)
Join(strs, sep) ==
    IF strs = <<>> THEN <<>>
    ELSE IF Len(strs) = 1 THEN strs[1]
    ELSE strs[1] \o sep \o Join(Tail(strs), sep)

\* for i := 0; i < 64; i++ { if f.match(i) { buffer = append(buffer, strconv.Itoa(i)) } }
RECURSIVE formatFrom(_, _)
formatFrom(f, i) ==
    IF i >= Words * WordBits THEN <<>>
    ELSE (IF match(f, i) THEN <<Itoa(i)>> ELSE <<>>) \o formatFrom(f, i + 1)

\* field.format without the case of '*': every mask as the list of its bits.
formatList(f) == Join(formatFrom(f, 0), <<",">>)

\* field.format
format(f) == IF f = star THEN <<"*">> ELSE Join(formatFrom(f, 0), <<",">>)

\* Entry.String: the name, the five formatted fields joined with a space and
\* the location, which fmt.Sprintf then lays out.
String(e) ==
    [name |-> e.Name,
     schedule |-> Join(<<format(e.minute), format(e.hour), format(e.dom),
                         format(e.month), format(e.dow)>>, <<" ">>),
     location |-> e.Location]

\* Match with the day of month and the day of week ORed, as other crons do.
MatchDomOrDow(e, t) ==
    LET tl == In(t, e.Location)
    IN  /\ match(e.minute, Minute(tl))
        /\ match(e.hour, Hour(tl))
        /\ (match(e.dom, Day(tl)) \/ match(e.dow, Weekday(tl)))
        /\ match(e.month, Month(tl))

Match(e, t) ==
    LET tl == In(t, e.Location)
    IN  /\ match(e.minute, Minute(tl))
        /\ match(e.hour, Hour(tl))
        /\ match(e.dom, Day(tl))
        /\ match(e.dow, Weekday(tl))
        /\ match(e.month, Month(tl))

\* The entries of this model.
EntryA == Parse("* * * * *", "UTC", "A").e
EntryA1 == Parse("1 0 1 1 *", "UTC", "A").e
EntryB2 == Parse("2 0 1 1 *", "UTC", "B").e
EntryNoName == Parse("* * * * *", "UTC", "").e
EntryJ == Parse("* * * * *", "Asia/Jakarta", "J").e

(***************************************************************************)
(* Events and the two stores.  A store's data is a list of entries and a   *)
(* list of events; MemStore keeps them in slices, SqlStore in the tables   *)
(* _entries (key expression, location, name) and _events (key expression,  *)
(* location, name, triggered_at).                                          *)
(***************************************************************************)
Event(entry, time) == [Entry |-> entry, Time |-> time]

RECURSIVE SeqToSet(_)
SeqToSet(sq) == IF sq = <<>> THEN {} ELSE {Head(sq)} \cup SeqToSet(Tail(sq))

\* MemStore.AddEvent
MemAddEvent(evs, e) == Append(evs, e)

\* A GetEvents that leaves out the events at from itself.
MemGetEventsAfter(evs, from, to) ==
    LET InRange(v) == TimeAfter(v.Time, from) /\ TimeBefore(v.Time, to)
    IN  SelectSeq(evs, InRange)

\* MemStore.GetEvents: the events on [from, to)
MemGetEvents(evs, from, to) ==
    LET InRange(v) == /\ (TimeEqual(v.Time, from) \/ TimeAfter(v.Time, from))
                      /\ TimeBefore(v.Time, to)
    IN  SelectSeq(evs, InRange)

\* A row of _entries or _events read back: the entry is parsed again from
\* the row's expression, location and name.
SqlRowEntry(e) == Parse(e.expression, e.Location, e.Name).e

\* SqlStore.AddEvent: REPLACE INTO _events, a row per (expression, location,
\* name, triggered_at); the column keeps the instant, not the location.
SqlAddEvent(evs, e) ==
    LET SameKey(v) == /\ v.Entry.expression = e.Entry.expression
                      /\ v.Entry.Location = e.Entry.Location
                      /\ v.Entry.Name = e.Entry.Name
                      /\ v.Time.inst = e.Time.inst
        Other(v) == ~SameKey(v)
    IN  Append(SelectSeq(evs, Other), Event(e.Entry, In(e.Time, "UTC")))

\* SqlStore.GetEvents: triggered_at >= from AND triggered_at <= to, each
\* event's time shown in the location of its entry.
SqlGetEvents(evs, from, to) ==
    LET InRange(v) == v.Time.inst >= from.inst /\ v.Time.inst <= to.inst
        Row(v) == Event(SqlRowEntry(v.Entry), In(v.Time, v.Entry.Location))
        rows == SelectSeq(evs, InRange)
    IN  [i \in 1..Len(rows) |-> Row(rows[i])]

\* ErrorCh is make(chan error, 1).
ErrorChCap == 1

\* A log that queues the error behind the one held.
logQueued(ch, err) == Append(ch, err)

\* log: a send on ErrorCh that never blocks; the error is dropped when the
\* channel is full.
log(ch, err) == IF Len(ch) < ErrorChCap THEN Append(ch, err) ELSE ch

\* check's key of an occurrence: e.Name + "|" + time.Format(layout)
Key(name, t) == <<name, Format(t)>>

\* check's first loop: the keys of the events read, those of an entry with
\* an empty name left out (and logged).
mapTriggeredEvents(evs) ==
    {Key(e.Entry.Name, e.Time) : e \in {v \in SeqToSet(evs) : v.Entry.Name # ""}}

logEmptyEvents(ch, evs) ==
    IF \E v \in SeqToSet(evs) : v.Entry.Name = ""
    THEN log(ch, "got empty name for an event entry")
    ELSE ch

(***************************************************************************)
(* State.                                                                  *)
(***************************************************************************)
VARIABLES
    kind,        \* "mem": one MemStore shared by all; "sql": one database
    entries,     \* the store's entries
    events,      \* the store's events
    lockOwner,   \* who holds MemStore's mutex, or the tables' write lock
    sqlLocked,   \* SqlStore.locked of each instance's handle
    sqlTx,       \* SqlStore.tx # nil of each instance's handle
    failures,    \* the store calls that failed while ctx was live
    ErrorCh,     \* the package's error channel
    pc,          \* where each instance's Run is
    on,          \* check's argument
    entriesL,    \* check's local: entries
    triggered,   \* check's local: mapTriggeredEvents
    idx,         \* check's local: position in the loop over entries
    checkErr,    \* check's return value
    offset,      \* the instant within its minute at which the ticker ticks
    lastMinute,  \* the minute of the last tick received from ticker.C
    ticks,       \* the ticks received so far, by all the instances
    ctxDone,     \* ctx.Done() is closed
    runRet,      \* Run's return value
    running,     \* the handler calls in progress, each in its goroutine
    dispatched,  \* history: the handler calls started with go
    written,     \* history: the AddEvent calls that succeeded
    failedAt,    \* history: the positions whose AddEvent failed, in this check
    clean,       \* history: no store call of this check has failed
    eventsAtLock,\* history: the events when this check took the lock
    lastCheck,   \* history: the last check that released the lock
    released,    \* history: the timestamps of the checks that released it
    second,      \* history: this check follows a clean check for the same on
    call         \* the last call a client made on the store, and what it returned

storeVars == <<kind, entries, events, lockOwner, sqlLocked, sqlTx, failures, call>>
checkVars == <<on, entriesL, triggered, idx, checkErr>>
runVars == <<offset, lastMinute, ticks, ctxDone, runRet>>
histVars == <<dispatched, written, failedAt, clean, eventsAtLock, lastCheck, released,
             second>>
vars == <<storeVars, ErrorCh, pc, checkVars, runVars, running, histVars>>

NoTime == Time(0 - 1, Local)

\* No client has called the store.
NoCall ==
    [op |-> "none", arg |-> <<>>, ok |-> TRUE, ret |-> <<>>, entries |-> <<>>,
     events |-> <<>>]

SameRow(a, b) ==
    a.expression = b.expression /\ a.Location = b.Location /\ a.Name = b.Name

\* The entry lists the store starts with: MemStore.AddEntry appends whatever
\* it is given, _entries holds one row per (expression, location, name).
EntryLists(k) ==
    {sq \in { <<EntryA, EntryJ>>, <<EntryA, EntryA1>>, <<EntryA, EntryA>>,
              <<EntryNoName, EntryA>>, <<EntryB2, EntryA>> } :
        k = "sql" => \A i, j \in 1..Len(sq) : i # j => ~SameRow(sq[i], sq[j])}

\* No instance has started.
InitRun ==
    /\ lockOwner = NoOne
    /\ sqlLocked = [s \in Schedulers |-> FALSE]
    /\ sqlTx = [s \in Schedulers |-> FALSE]
    /\ failures = 0
    /\ ErrorCh = <<>>
    /\ pc = [s \in Schedulers |-> "init"]
    /\ on = [s \in Schedulers |-> NoTime]
    /\ entriesL = [s \in Schedulers |-> <<>>]
    /\ triggered = [s \in Schedulers |-> {}]
    /\ idx = [s \in Schedulers |-> 0]
    /\ checkErr = [s \in Schedulers |-> "nil"]
    /\ offset = [s \in Schedulers |-> 0]
    /\ lastMinute = [s \in Schedulers |-> 0]
    /\ ticks = 0
    /\ ctxDone = FALSE
    /\ runRet = [s \in Schedulers |-> "running"]
    /\ running = {}
    /\ dispatched = {}
    /\ written = {}
    /\ failedAt = [s \in Schedulers |-> {}]
    /\ clean = [s \in Schedulers |-> TRUE]
    /\ eventsAtLock = [s \in Schedulers |-> <<>>]
    /\ lastCheck = [on |-> NoTime, clean |-> FALSE]
    /\ released = {}
    /\ second = [s \in Schedulers |-> FALSE]

Init ==
    /\ kind \in {"mem", "sql"}
    /\ entries \in EntryLists(kind)
    /\ events = <<>>
    /\ call = NoCall
    /\ InitRun

\* The results a store call of instance s can have: MemStore's calls never
\* fail, SqlStore's fail when the database does, and always once ctx is done.
Outcomes(s) ==
    IF kind = "mem" THEN {TRUE}
    ELSE IF ctxDone THEN {FALSE}
    ELSE IF failures < MaxFailures THEN BOOLEAN ELSE {TRUE}

\* The store call whose result is ok has been made.
Called(ok) == failures' = IF ok \/ ctxDone THEN failures ELSE failures + 1


Set(f, s, v) == [f EXCEPT ![s] = v]

\* One handler call or one stored event of the history.
Firing(s, i) == [by |-> s, on |-> on[s], entry |-> entriesL[s][i], idx |-> i]

(***************************************************************************)
(* Scheduler.Run                                                           *)
(***************************************************************************)
\* A Run that enters its loop although Initialize failed.
StartAnyway(s) ==
    /\ pc[s] = "init"
    /\ \E ok \in Outcomes(s) :
         /\ Called(ok)
         /\ pc' = Set(pc, s, "select")
         /\ \E c \in 0..(SubPerMin - 1) : offset' = Set(offset, s, c)
         /\ runRet' = IF ok THEN runRet
                      ELSE Set(runRet, s, "failed to initialize store")
    /\ UNCHANGED <<kind, call, entries, events, lockOwner, sqlLocked, sqlTx, ErrorCh,
                   checkVars, lastMinute, ticks, ctxDone, histVars, running>>

\* s.store.Initialize(ctx), a failure of which ends Run; then time.Sleep up
\* to the next minute boundary (instant 0) and time.NewTicker(time.Minute):
\* the ticker starts at the instant c the sleeper wakes at, and ticks at that
\* instant of every minute after.
Start(s) ==
    /\ pc[s] = "init"
    /\ \E ok \in Outcomes(s) :
         /\ Called(ok)
         /\ IF ok
            THEN /\ pc' = Set(pc, s, "select")
                 /\ \E c \in 0..(SubPerMin - 1) : offset' = Set(offset, s, c)
                 /\ runRet' = runRet
            ELSE /\ pc' = Set(pc, s, "done")
                 /\ runRet' = Set(runRet, s, "failed to initialize store")
                 /\ offset' = offset
    /\ UNCHANGED <<kind, call, entries, events, lockOwner, sqlLocked, sqlTx, ErrorCh,
                   checkVars, lastMinute, ticks, ctxDone, histVars, running>>

\* The caller of Run cancels ctx, which all the instances were given.
Cancel ==
    /\ ~ctxDone
    /\ ctxDone' = TRUE
    /\ UNCHANGED <<storeVars, ErrorCh, pc, checkVars, offset, lastMinute, ticks, runRet, histVars, running>>

\* case <-ctx.Done(): ticker.Stop(); return nil
SelectDone(s) ==
    /\ pc[s] = "select"
    /\ ctxDone
    /\ pc' = Set(pc, s, "done")
    /\ runRet' = Set(runRet, s, "nil")
    /\ UNCHANGED <<storeVars, ErrorCh, checkVars, offset, lastMinute, ticks, ctxDone, histVars, running>>

\* The minutes whose tick the next receive from ticker.C can yield: ticker.C
\* holds one tick, and a tick that finds it full is dropped, so the first
\* tick is always received and any of the later ones may be missing.
NextMinutes(s) ==
    IF lastMinute[s] = 0 THEN {1} ELSE (lastMinute[s] + 1)..MaxChecks

\* case t := <-ticker.C: s.check(ctx, t)
SelectTick(s) ==
    /\ pc[s] = "select"
    /\ ticks < MaxChecks
    /\ \E m \in NextMinutes(s) :
         /\ on' = Set(on, s, Time((m * SubPerMin) + offset[s], Local))
         /\ lastMinute' = Set(lastMinute, s, m)
    /\ ticks' = ticks + 1
    /\ checkErr' = Set(checkErr, s, "nil")
    /\ pc' = Set(pc, s, "lock")
    /\ failedAt' = Set(failedAt, s, {})
    /\ clean' = Set(clean, s, TRUE)
    /\ UNCHANGED <<storeVars, ErrorCh, entriesL, triggered, idx, offset, ctxDone,
                   runRet, dispatched, running, written, eventsAtLock, lastCheck, released, second>>

\* A Run that returns the error of a failed check.
RetEndsRun(s) ==
    /\ pc[s] = "ret"
    /\ ErrorCh' = IF checkErr[s] # "nil"
                  THEN log(ErrorCh, "failed to do check")
                  ELSE ErrorCh
    /\ pc' = Set(pc, s, IF checkErr[s] # "nil" THEN "done" ELSE "select")
    /\ UNCHANGED <<storeVars, checkVars, runVars, histVars, running>>

\* check has returned: Run logs its error, if any, and selects again.
Ret(s) ==
    /\ pc[s] = "ret"
    /\ ErrorCh' = IF checkErr[s] # "nil"
                  THEN log(ErrorCh, "failed to do check")
                  ELSE ErrorCh
    /\ pc' = Set(pc, s, "select")
    /\ UNCHANGED <<storeVars, checkVars, runVars, histVars, running>>

\* The host program reads ErrorCh.
ReadErrorCh ==
    /\ ErrorCh # <<>>
    /\ ErrorCh' = Tail(ErrorCh)
    /\ UNCHANGED <<storeVars, pc, checkVars, runVars, histVars, running>>


(***************************************************************************)
(* Scheduler.check                                                         *)
(***************************************************************************)
\* The lock is taken: check goes on to GetEntries (defer UnLock is set).
Locked(s) ==
    /\ lockOwner' = s
    /\ pc' = Set(pc, s, "getEntries")
    /\ eventsAtLock' = Set(eventsAtLock, s, events)
    /\ second' = Set(second, s, lastCheck.clean /\ lastCheck.on = on[s])
    /\ UNCHANGED <<checkErr, dispatched, running, written, failedAt, clean, lastCheck, released>>

\* Lock failed: check returns "locking store failed", with no UnLock.
NotLocked(s) ==
    /\ checkErr' = Set(checkErr, s, "locking store failed")
    /\ pc' = Set(pc, s, "ret")
    /\ UNCHANGED <<lockOwner, histVars, running>>

\* A Lock that does not wait for the mutex.
MemLockNoWait(s) ==
    /\ Locked(s)
    /\ UNCHANGED <<sqlLocked, sqlTx, failures>>

\* MemStore.Lock: m.Mutex.Lock(), which waits for the mutex.
MemLock(s) ==
    /\ lockOwner = NoOne
    /\ Locked(s)
    /\ UNCHANGED <<sqlLocked, sqlTx, failures>>

\* SqlStore.Lock: refused when the handle is locked or holds a transaction;
\* else BeginTx, then LOCK TABLE ... WRITE, which waits for the tables; then
\* locked = true.
SqlLock(s) ==
    IF sqlLocked[s] \/ sqlTx[s]
    THEN NotLocked(s) /\ UNCHANGED <<sqlLocked, sqlTx, failures>>
    ELSE \E began \in Outcomes(s) :
           IF ~began
           THEN NotLocked(s) /\ Called(FALSE) /\ UNCHANGED <<sqlLocked, sqlTx>>
           ELSE /\ sqlTx' = Set(sqlTx, s, TRUE)
                /\ \E ok \in Outcomes(s) :
                     /\ Called(ok)
                     /\ IF ~ok
                        THEN NotLocked(s) /\ UNCHANGED sqlLocked
                        ELSE /\ lockOwner = NoOne
                             /\ sqlLocked' = Set(sqlLocked, s, TRUE)
                             /\ Locked(s)

\* err := s.store.Lock(ctx)
Lock(s) ==
    /\ pc[s] = "lock"
    /\ IF kind = "mem" THEN MemLock(s) ELSE SqlLock(s)
    /\ UNCHANGED <<kind, call, entries, events, ErrorCh, on, entriesL, triggered, idx, runVars>>

\* Store.GetEntries: MemStore returns its slice, SqlStore the rows parsed.
StoreGetEntries(k, ents) ==
    IF k = "mem" THEN ents ELSE [i \in 1..Len(ents) |-> SqlRowEntry(ents[i])]

\* entries, err := s.store.GetEntries(ctx)
GetEntries(s) ==
    /\ pc[s] = "getEntries"
    /\ \E ok \in Outcomes(s) :
         /\ Called(ok)
         /\ IF ok
            THEN /\ entriesL' = Set(entriesL, s, StoreGetEntries(kind, entries))
                 /\ pc' = Set(pc, s, "getEvents")
                 /\ UNCHANGED <<checkErr, clean>>
            ELSE /\ checkErr' = Set(checkErr, s, "failed to get entries")
                 /\ clean' = Set(clean, s, FALSE)
                 /\ pc' = Set(pc, s, "unlock")
                 /\ UNCHANGED entriesL
    /\ UNCHANGED <<kind, call, entries, events, lockOwner, sqlLocked, sqlTx, ErrorCh, on, triggered, idx, runVars, dispatched, running, written,
                   failedAt, eventsAtLock, lastCheck, released, second>>

StoreGetEvents(k, evs, from, to) ==
    IF k = "mem" THEN MemGetEvents(evs, from, to) ELSE SqlGetEvents(evs, from, to)

\* events, err := s.store.GetEvents(ctx, on, on.Add(time.Minute)), and the
\* loop over the events that fills mapTriggeredEvents.
GetEvents(s) ==
    /\ pc[s] = "getEvents"
    /\ \E ok \in Outcomes(s) :
         /\ Called(ok)
         /\ IF ok
            THEN LET evs == StoreGetEvents(kind, events, on[s], AddMinute(on[s]))
                 IN  /\ triggered' = Set(triggered, s, mapTriggeredEvents(evs))
                     /\ ErrorCh' = logEmptyEvents(ErrorCh, evs)
                     /\ idx' = Set(idx, s, 1)
                     /\ pc' = Set(pc, s, "loop")
                     /\ UNCHANGED <<checkErr, clean>>
            ELSE /\ checkErr' = Set(checkErr, s, "failed to get events")
                 /\ clean' = Set(clean, s, FALSE)
                 /\ pc' = Set(pc, s, "unlock")
                 /\ UNCHANGED <<triggered, ErrorCh, idx>>
    /\ UNCHANGED <<kind, call, entries, events, lockOwner, sqlLocked, sqlTx, on, entriesL, runVars, dispatched, running, written,
                   failedAt, eventsAtLock, lastCheck, released, second>>

StoreAddEvent(k, evs, e) ==
    IF k = "mem" THEN MemAddEvent(evs, e) ELSE SqlAddEvent(evs, e)

\* An entry is left out while a handler call for its name is in progress.
DueWhenIdle(e, t, trig) ==
    /\ Match(e, t)
    /\ Key(e.Name, t) \notin trig
    /\ ~\E f \in running : f.entry.Name = e.Name

\* The entry matches on and its key is not in mapTriggeredEvents.
Due(e, t, trig) == Match(e, t) /\ Key(e.Name, t) \notin trig

\* The loop goes on with the next entry.
Continue(s) ==
    /\ idx' = Set(idx, s, idx[s] + 1)
    /\ pc' = Set(pc, s, "loop")

\* An AddEvent failure after which the handler is called all the same.
AddEventFailedGo(s) ==
    /\ ErrorCh' = log(ErrorCh, "failed to store event")
    /\ failedAt' = Set(failedAt, s, failedAt[s] \cup {idx[s]})
    /\ clean' = Set(clean, s, FALSE)
    /\ pc' = Set(pc, s, "go")
    /\ UNCHANGED <<events, written, idx>>

\* An AddEvent failure that ends the loop.
AddEventFailedBreak(s) ==
    /\ ErrorCh' = log(ErrorCh, "failed to store event")
    /\ failedAt' = Set(failedAt, s, failedAt[s] \cup {idx[s]})
    /\ clean' = Set(clean, s, FALSE)
    /\ idx' = Set(idx, s, Len(entriesL[s]) + 1)
    /\ pc' = Set(pc, s, "unlock")
    /\ UNCHANGED <<events, written>>

\* AddEvent failed: log the error and continue with the next entry.
AddEventFailed(s) ==
    /\ ErrorCh' = log(ErrorCh, "failed to store event")
    /\ failedAt' = Set(failedAt, s, failedAt[s] \cup {idx[s]})
    /\ clean' = Set(clean, s, FALSE)
    /\ Continue(s)
    /\ UNCHANGED <<events, written>>

\* A handler call for which no event was stored.
AddEventSkipped(s) ==
    /\ pc' = Set(pc, s, "go")
    /\ UNCHANGED <<events, written, ErrorCh, failedAt, clean, idx>>

\* AddEvent succeeded: the handler is called next.
AddEventDone(s) ==
    /\ events' = StoreAddEvent(kind, events, Event(entriesL[s][idx[s]], on[s]))
    /\ written' = written \cup {Firing(s, idx[s])}
    /\ pc' = Set(pc, s, "go")
    /\ UNCHANGED <<ErrorCh, failedAt, clean, idx>>

\* A loop that takes an entry with an empty name like any other.
LoopAnyName(s) ==
    /\ pc[s] = "loop"
    /\ IF idx[s] > Len(entriesL[s])
       THEN /\ pc' = Set(pc, s, "unlock")
            /\ UNCHANGED <<events, failures, ErrorCh, idx, written, failedAt, clean>>
       ELSE LET e == entriesL[s][idx[s]]
            IN  IF ~Due(e, on[s], triggered[s])
                THEN /\ Continue(s)
                     /\ UNCHANGED <<events, failures, ErrorCh, written, failedAt, clean>>
                ELSE \E ok \in Outcomes(s) :
                       /\ Called(ok)
                       /\ IF ok THEN AddEventDone(s) ELSE AddEventFailed(s)
    /\ UNCHANGED <<kind, call, entries, lockOwner, sqlLocked, sqlTx, on, entriesL, triggered,
                   checkErr, runVars, dispatched, running, eventsAtLock, lastCheck, released, second>>

\* One turn of "for _, e := range entries", up to the AddEvent call.
Loop(s) ==
    /\ pc[s] = "loop"
    /\ IF idx[s] > Len(entriesL[s])
       THEN /\ pc' = Set(pc, s, "unlock")
            /\ UNCHANGED <<events, failures, ErrorCh, idx, written, failedAt, clean>>
       ELSE LET e == entriesL[s][idx[s]]
            IN  IF e.Name = ""
                THEN /\ ErrorCh' = log(ErrorCh, "got empty name for an event entry")
                     /\ Continue(s)
                     /\ UNCHANGED <<events, failures, written, failedAt, clean>>
                ELSE IF ~Due(e, on[s], triggered[s])
                THEN /\ Continue(s)
                     /\ UNCHANGED <<events, failures, ErrorCh, written, failedAt, clean>>
                ELSE \E ok \in Outcomes(s) :
                       /\ Called(ok)
                       /\ IF ok THEN AddEventDone(s) ELSE AddEventFailed(s)
    /\ UNCHANGED <<kind, call, entries, lockOwner, sqlLocked, sqlTx, on, entriesL, triggered,
                   checkErr, runVars, dispatched, running, eventsAtLock, lastCheck, released, second>>

\* go s.handler(e.Name)
Go(s) ==
    /\ pc[s] = "go"
    /\ dispatched' = dispatched \cup {Firing(s, idx[s])}
    /\ running' = running \cup {Firing(s, idx[s])}
    /\ Continue(s)
    /\ UNCHANGED <<storeVars, ErrorCh, on, entriesL, triggered, checkErr, runVars,
                   written, failedAt, clean, eventsAtLock, lastCheck, released, second>>

\* MemStore.UnLock: m.Mutex.Unlock()
MemUnLock(s) ==
    /\ lockOwner' = NoOne
    /\ lastCheck' = [on |-> on[s], clean |-> clean[s]]
    /\ released' = released \cup {on[s]}
    /\ UNCHANGED <<sqlLocked, sqlTx, failures>>

\* SqlStore.UnLock: UNLOCK TABLES, then locked = false; an error leaves the
\* handle as it is.
SqlUnLock(s) ==
    IF ~sqlLocked[s] \/ ~sqlTx[s]
    THEN /\ lastCheck' = [on |-> on[s], clean |-> FALSE]
         /\ UNCHANGED <<lockOwner, sqlLocked, sqlTx, failures, released>>
    ELSE \E ok \in Outcomes(s) :
           /\ Called(ok)
           /\ IF ok
              THEN /\ sqlLocked' = Set(sqlLocked, s, FALSE)
                   /\ lockOwner' = NoOne
                   /\ lastCheck' = [on |-> on[s], clean |-> clean[s]]
                   /\ released' = released \cup {on[s]}
                   /\ UNCHANGED sqlTx
              ELSE /\ lastCheck' = [on |-> on[s], clean |-> FALSE]
                   /\ UNCHANGED <<lockOwner, sqlLocked, sqlTx, released>>

\* defer s.store.UnLock(ctx): check returns, and its error is dropped.
UnLock(s) ==
    /\ pc[s] = "unlock"
    /\ IF kind = "mem" THEN MemUnLock(s) ELSE SqlUnLock(s)
    /\ pc' = Set(pc, s, "ret")
    /\ UNCHANGED <<kind, call, entries, events, ErrorCh, checkVars, runVars, dispatched, running,
                   written, failedAt, clean, eventsAtLock, second>>

Next ==
    \/ \E s \in Schedulers :
         \/ Start(s)
         \/ SelectDone(s)
         \/ SelectTick(s)
         \/ Lock(s)
         \/ GetEntries(s)
         \/ GetEvents(s)
         \/ Loop(s)
         \/ Go(s)
         \/ UnLock(s)
         \/ Ret(s)
    \/ Cancel
    \/ ReadErrorCh

Spec == Init /\ [][Next]_vars

\* A handler call returns.
HandlerReturns ==
    /\ \E f \in running : running' = running \ {f}
    /\ UNCHANGED <<storeVars, ErrorCh, pc, checkVars, runVars, histVars>>

\* The instances together with the handlers they have started.
NextWithHandlers == Next \/ HandlerReturns
SpecWithHandlers == Init /\ [][NextWithHandlers]_vars

\* The instances share one MemStore.
InitMem == Init /\ kind = "mem"
SpecMem == InitMem /\ [][Next]_vars

(***************************************************************************)
(* The store contract: the calls a client makes on one store while it      *)
(* holds the lock, as storeTest does.  Three implementations: the MemStore *)
(* of scheduler.go ("mem"), the MemStore of memstore.go ("mem0") and       *)
(* SqlStore ("sql").                                                       *)
(***************************************************************************)
\* The entries and events a store holds at most, taken together, and the
\* last instant of an event or of a range asked for.
MaxStored == 3
MaxInst == 2

StoreKinds == {"mem", "mem0", "sql"}

\* An entry that differs from EntryA in its location only.
EntryAJ == Parse("* * * * *", "Asia/Jakarta", "A").e

\* The entries, times and events the client hands to the store.
StoreEntries == {EntryA, EntryA1, EntryAJ, EntryNoName}
StoreTimes == {Time(i, "UTC") : i \in 0..MaxInst}
StoreEvents ==
    {Event(EntryA, t) : t \in StoreTimes} \cup {Event(EntryAJ, Time(0, "UTC"))}

\* MemStore.AddEntry: append
MemAddEntry(ents, e) == Append(ents, e)

\* SqlStore.AddEntry: REPLACE INTO _entries, a row per (expression,
\* location, name).
SqlAddEntry(ents, e) ==
    LET Other(v) == ~SameRow(v, e)
    IN  Append(SelectSeq(ents, Other), e)

\* MemStore.DeleteEntry of scheduler.go: the entries of another expression
\* or name, collected in a fresh slice.
MemDeleteEntry(ents, e) ==
    LET Kept(v) == ~(v.expression = e.expression /\ v.Name = e.Name)
    IN  SelectSeq(ents, Kept)

\* MemStore.DeleteEntry of memstore.go: new := m.entries, and the entries of
\* another expression or name appended to it.
Mem0DeleteEntry(ents, e) ==
    LET Kept(v) == ~(v.expression = e.expression /\ v.Name = e.Name)
    IN  ents \o SelectSeq(ents, Kept)

\* SqlStore.DeleteEntry: DELETE ... WHERE expression=? AND location=? AND name=?
SqlDeleteEntry(ents, e) ==
    LET Other(v) == ~SameRow(v, e)
    IN  SelectSeq(ents, Other)

\* MemStore.GetEvents of memstore.go: the events on [from, to]
Mem0GetEvents(evs, from, to) ==
    LET InRange(v) == /\ (TimeEqual(v.Time, from) \/ TimeAfter(v.Time, from))
                      /\ (TimeEqual(v.Time, to) \/ TimeBefore(v.Time, to))
    IN  SelectSeq(evs, InRange)

\* A DeleteEvents that removes the events at the threshold too.
DeleteEventsUpTo(evs, before) ==
    LET Kept(v) == TimeAfter(v.Time, before)
    IN  SelectSeq(evs, Kept)

\* DeleteEvents(before): the events earlier than before are removed.
DeleteEvents(evs, before) ==
    LET Kept(v) == ~TimeBefore(v.Time, before)
    IN  SelectSeq(evs, Kept)

\* The implementation k of each method of the store.
ImplAddEntry(k, ents, e) ==
    IF k = "sql" THEN SqlAddEntry(ents, e) ELSE MemAddEntry(ents, e)

ImplDeleteEntry(k, ents, e) ==
    CASE k = "mem" -> MemDeleteEntry(ents, e)
      [] k = "mem0" -> Mem0DeleteEntry(ents, e)
      [] k = "sql" -> SqlDeleteEntry(ents, e)

ImplGetEntries(k, ents) ==
    IF k = "mem0" THEN ents ELSE StoreGetEntries(k, ents)

ImplAddEvent(k, evs, e) ==
    IF k = "mem0" THEN MemAddEvent(evs, e) ELSE StoreAddEvent(k, evs, e)

ImplGetEvents(k, evs, from, to) ==
    IF k = "mem0" THEN Mem0GetEvents(evs, from, to)
    ELSE StoreGetEvents(k, evs, from, to)

\* Initialize: MemStore.Initialize of scheduler.go returns nil, SqlStore's
\* creates the two tables if they do not exist, MemStore.Init of memstore.go
\* makes new slices.
ImplInitialize(k, data) == IF k = "mem0" THEN <<>> ELSE data

\* The results a call of the client can have: an SqlStore call fails when
\* the database does.
CallOutcomes == IF kind = "sql" THEN BOOLEAN ELSE {TRUE}

\* The client's call of method op with argument arg has returned ret.
Returned(op, arg, ok, ret) ==
    call' = [op |-> op, arg |-> arg, ok |-> ok, ret |-> ret,
             entries |-> entries, events |-> events]

schedVars == <<lockOwner, sqlLocked, sqlTx, failures, ErrorCh, pc, checkVars,
               runVars, running, histVars>>

CallInitialize ==
    /\ \E ok \in CallOutcomes :
         /\ Returned("Initialize", <<>>, ok, <<>>)
         /\ entries' = IF ok THEN ImplInitialize(kind, entries) ELSE entries
         /\ events' = IF ok THEN ImplInitialize(kind, events) ELSE events
    /\ UNCHANGED <<kind, schedVars>>

CallAddEntry(e) ==
    /\ Len(entries) + Len(events) < MaxStored
    /\ \E ok \in CallOutcomes :
         /\ Returned("AddEntry", e, ok, <<>>)
         /\ entries' = IF ok THEN ImplAddEntry(kind, entries, e) ELSE entries
    /\ UNCHANGED <<kind, events, schedVars>>

CallDeleteEntry(e) ==
    /\ Len(ImplDeleteEntry(kind, entries, e)) + Len(events) <= MaxStored
    /\ \E ok \in CallOutcomes :
         /\ Returned("DeleteEntry", e, ok, <<>>)
         /\ entries' = IF ok THEN ImplDeleteEntry(kind, entries, e) ELSE entries
    /\ UNCHANGED <<kind, events, schedVars>>

CallGetEntries ==
    /\ \E ok \in CallOutcomes :
         Returned("GetEntries", <<>>, ok,
                  IF ok THEN ImplGetEntries(kind, entries) ELSE <<>>)
    /\ UNCHANGED <<kind, entries, events, schedVars>>

CallAddEvent(e) ==
    /\ Len(entries) + Len(events) < MaxStored
    /\ \E ok \in CallOutcomes :
         /\ Returned("AddEvent", e, ok, <<>>)
         /\ events' = IF ok THEN ImplAddEvent(kind, events, e) ELSE events
    /\ UNCHANGED <<kind, entries, schedVars>>

CallGetEvents(from, to) ==
    /\ \E ok \in CallOutcomes :
         Returned("GetEvents", <<from, to>>, ok,
                  IF ok THEN ImplGetEvents(kind, events, from, to) ELSE <<>>)
    /\ UNCHANGED <<kind, entries, events, schedVars>>

CallDeleteEvents(before) ==
    /\ \E ok \in CallOutcomes :
         /\ Returned("DeleteEvents", before, ok, <<>>)
         /\ events' = IF ok THEN DeleteEvents(events, before) ELSE events
    /\ UNCHANGED <<kind, entries, schedVars>>

\* A store of any of the three kinds, empty.
InitStore ==
    /\ kind \in StoreKinds
    /\ entries = <<>>
    /\ events = <<>>
    /\ call = NoCall
    /\ InitRun

NextStore ==
    \/ CallInitialize
    \/ \E e \in StoreEntries : CallAddEntry(e)
    \/ \E e \in StoreEntries : CallDeleteEntry(e)
    \/ CallGetEntries
    \/ \E e \in StoreEvents : CallAddEvent(e)
    \/ \E from, to \in StoreTimes : CallGetEvents(from, to)
    \/ \E before \in StoreTimes : CallDeleteEvents(before)

SpecStore == InitStore /\ [][NextStore]_vars

(***************************************************************************)
(* The store contract on two stores: the client makes each call on a       *)
(* MemStore and on an SqlStore, both empty at first and both locked, the   *)
(* database never failing.  entries and events are the MemStore's slices,  *)
(* call.entries and call.events the rows of the SqlStore's tables, and     *)
(* call.ret is what the MemStore and the SqlStore returned, in this order. *)
(***************************************************************************)
InitBoth ==
    /\ kind = "mem"
    /\ entries = <<>>
    /\ events = <<>>
    /\ call = NoCall
    /\ InitRun

BothAddEntry(e) ==
    /\ Len(entries) + Len(events) < MaxStored
    /\ entries' = MemAddEntry(entries, e)
    /\ call' = [op |-> "AddEntry", arg |-> e, ok |-> TRUE, ret |-> <<>>,
                entries |-> SqlAddEntry(call.entries, e),
                events |-> call.events]
    /\ UNCHANGED <<kind, events, schedVars>>

BothDeleteEntry(e) ==
    /\ entries' = MemDeleteEntry(entries, e)
    /\ call' = [op |-> "DeleteEntry", arg |-> e, ok |-> TRUE, ret |-> <<>>,
                entries |-> SqlDeleteEntry(call.entries, e),
                events |-> call.events]
    /\ UNCHANGED <<kind, events, schedVars>>

BothAddEvent(e) ==
    /\ Len(entries) + Len(events) < MaxStored
    /\ events' = MemAddEvent(events, e)
    /\ call' = [op |-> "AddEvent", arg |-> e, ok |-> TRUE, ret |-> <<>>,
                entries |-> call.entries,
                events |-> SqlAddEvent(call.events, e)]
    /\ UNCHANGED <<kind, entries, schedVars>>

BothGetEntries ==
    /\ call' = [call EXCEPT !.op = "GetEntries", !.arg = <<>>, !.ok = TRUE,
                            !.ret = <<StoreGetEntries("mem", entries),
                                      StoreGetEntries("sql", call.entries)>>]
    /\ UNCHANGED <<kind, entries, events, schedVars>>

BothGetEvents(from, to) ==
    /\ call' = [call EXCEPT !.op = "GetEvents", !.arg = <<from, to>>,
                            !.ok = TRUE,
                            !.ret = <<MemGetEvents(events, from, to),
                                      SqlGetEvents(call.events, from, to)>>]
    /\ UNCHANGED <<kind, entries, events, schedVars>>

NextBoth ==
    \/ \E e \in StoreEntries : BothAddEntry(e)
    \/ \E e \in StoreEntries : BothDeleteEntry(e)
    \/ \E e \in StoreEvents : BothAddEvent(e)
    \/ BothGetEntries
    \/ \E from, to \in StoreTimes : BothGetEvents(from, to)

SpecBoth == InitBoth /\ [][NextBoth]_vars

(***************************************************************************)
(* A client thread that changes the entries of the MemStore the instances  *)
(* run on, as the README does with store.AddEntry: MemStore.AddEntry and   *)
(* MemStore.DeleteEntry take no lock. The client makes one call.           *)
(***************************************************************************)
\* store.AddEntry(ctx, e)
ClientAddEntry(e) ==
    /\ kind = "mem"
    /\ call.op = "none"
    /\ entries' = MemAddEntry(entries, e)
    /\ call' = [NoCall EXCEPT !.op = "AddEntry", !.arg = <<e>>,
                              !.entries = entries']
    /\ UNCHANGED <<kind, events, schedVars>>

\* store.DeleteEntry(ctx, e)
ClientDeleteEntry(e) ==
    /\ kind = "mem"
    /\ call.op = "none"
    /\ entries' = MemDeleteEntry(entries, e)
    /\ call' = [NoCall EXCEPT !.op = "DeleteEntry", !.arg = <<e>>,
                              !.entries = entries']
    /\ UNCHANGED <<kind, events, schedVars>>

NextWithClient ==
    \/ Next
    \/ \E e \in StoreEntries : ClientAddEntry(e)
    \/ \E e \in StoreEntries : ClientDeleteEntry(e)

SpecMemClient == InitMem /\ [][NextWithClient]_vars

(***************************************************************************)
(* The parser as a function: a client hands parseField one field text and  *)
(* the bounds of one of the five fields of Parse.                          *)
(***************************************************************************)
\* The field text a-b/c
RangeStep(a, b, c) == Itoa(a) \o <<"-">> \o Itoa(b) \o <<"/">> \o Itoa(c)

\* The steps of the field texts handed to parseField.
Steps == 1..MaxInt

\* The parts of the comma-separated field texts handed to parseField.
Parts ==
    {<<"*">>, <<"?">>, <<"5">>, <<"1", "-", "3">>, <<"*", "/", "2">>,
     <<"2", "-", "6", "/", "2">>, <<"7", "0">>, <<"x">>, <<"3", "/", "2">>,
     <<" ", "5">>, <<>>, <<"5", "-">>, <<"*", "/", "0">>}

\* The client is about to call parseField(s, min, max).
InitParse ==
    /\ kind = "mem"
    /\ entries = <<>>
    /\ events = <<>>
    /\ InitRun
    /\ \/ \E bounds \in {FieldBounds[i] : i \in 1..5} :
            \E a \in bounds[1]..bounds[2] :
              \E b \in a..bounds[2] :
                \E c \in Steps :
                  call = [NoCall EXCEPT
                            !.arg = <<RangeStep(a, b, c), bounds[1], bounds[2]>>]
       \/ \E s \in {<<"*">>, <<"?">>, <<" ", "*">>, <<"?", " ">>, <<"*", "*">>,
                    <<"*", "/", "1">>, <<"?", "-">>, <<"?", "/", "2">>,
                    <<"5", "-">>} :
            \E min \in (0 - 1)..2 : \E max \in {0, 6, 31, 59} :
              call = [NoCall EXCEPT !.arg = <<s, min, max>>]
       \/ \E bounds \in {FieldBounds[i] : i \in 1..5} :
            \E p, q \in Parts :
              call = [NoCall EXCEPT
                        !.arg = <<p \o <<",">> \o q, bounds[1], bounds[2]>>]

\* f, err := parseField(s, min, max)
CallParseField ==
    /\ call.op = "none"
    /\ call.arg # <<>>
    /\ LET r == parseField(call.arg[1], call.arg[2], call.arg[3])
       IN  call' = [call EXCEPT !.op = "parseField", !.ok = (r.err = "nil"),
                                !.ret = r]
    /\ UNCHANGED <<kind, entries, events, schedVars>>

SpecParse == InitParse /\ [][CallParseField]_vars

(***************************************************************************)
(* The entry as a value: a client parses an expression and, when Parse     *)
(* gave no error, asks the entry whether it matches a time or prints it.   *)
(***************************************************************************)
\* time.Date(2000, 1, day, hour, minute, 0, 0, loc)
Date(day, hour, minute, loc) ==
    Time(SubPerMin * ((((day - 1) * 1440) + (hour * 60) + minute) - ZoneOffset(loc)), loc)

\* The times handed to Match: days of January 2000 from Sunday the 2nd on,
\* in either zone.
MatchTimes ==
    {Date(day, hour, minute, loc) :
        day \in {2, 3, 4}, hour \in {0, 1, 17, 18, 23}, minute \in {0, 1, 59},
        loc \in Zones}

\* The client is about to call Parse(expression, loc, name) and has a time t
\* at hand: call.arg is <<expression, loc, name, t>>.
InitEntry ==
    /\ kind = "mem"
    /\ entries = <<>>
    /\ events = <<>>
    /\ InitRun
    /\ \E expression \in Expressions : \E loc \in Zones \cup {"nil"} :
         \E t \in MatchTimes :
           call = [NoCall EXCEPT !.arg = <<expression, loc, "A", t>>]

\* e, err := Parse(expression, loc, name). A Parse that never returns leaves
\* the client where it is.
CallParse ==
    /\ call.op = "none"
    /\ Len(call.arg) = 4
    /\ Parse(call.arg[1], call.arg[2], call.arg[3]).err # "never returns"
    /\ call' = LET r == Parse(call.arg[1], call.arg[2], call.arg[3])
               IN  [call EXCEPT !.op = "Parse", !.ok = (r.err = "nil"),
                                !.ret = r]
    /\ UNCHANGED <<kind, entries, events, schedVars>>

\* e.Match(t), on the entry a Parse without error returned.
CallMatch ==
    /\ call.op = "Parse"
    /\ call.ok
    /\ call' = [call EXCEPT !.op = "Match",
                            !.ret = [e |-> call.ret.e,
                                     match |-> Match(call.ret.e, call.arg[4])]]
    /\ UNCHANGED <<kind, entries, events, schedVars>>

\* e.String(), on the entry a Parse without error returned.
CallString ==
    /\ call.op = "Parse"
    /\ call.ok
    /\ call' = [call EXCEPT !.op = "String",
                            !.ret = [e |-> call.ret.e,
                                     string |-> String(call.ret.e)]]
    /\ UNCHANGED <<kind, entries, events, schedVars>>

NextEntry == CallParse \/ CallMatch \/ CallString

SpecEntry == InitEntry /\ [][NextEntry]_vars

\* ENABLED <<CallParse>>_vars: the client has a call of Parse to make and
\* that Parse returns.
CanReturn ==
    /\ call.op = "none"
    /\ Len(call.arg) = 4
    /\ Parse(call.arg[1], call.arg[2], call.arg[3]).err # "never returns"

(***************************************************************************)
(* Properties.                                                             *)
(***************************************************************************)
\* check of s is between its successful Lock and the deferred UnLock.
InCheck(s) == pc[s] \in {"getEntries", "getEvents", "loop", "go", "unlock"}

\* The wall-clock minute of a timestamp.
MinuteOf(t) == t.inst \div SubPerMin

\* The store's entries have pairwise distinct names.
DistinctNames ==
    \A i, j \in 1..Len(entries) : i # j => entries[i].Name # entries[j].Name

\* The handler calls and the stored events of the check s is in.
FiredBy(s) == {f \in dispatched : f.by = s /\ f.on = on[s]}
WrittenBy(s) == {f \in written : f.by = s /\ f.on = on[s]}

\* The event of firing f is in the store.
Stored(f) ==
    \E v \in SeqToSet(events) : v.Entry = f.entry /\ TimeEqual(v.Time, f.on)

\* C1: with entries of pairwise distinct names, the handler is dispatched at
\* most once per (entry name, wall-clock minute), all instances together,
\* also when the instances' ticks fall at different instants of the minute.
C1_OncePerNameAndMinute ==
    DistinctNames =>
        \A f, g \in dispatched :
            (f.entry.Name = g.entry.Name /\ MinuteOf(f.on) = MinuteOf(g.on))
                => f = g

\* C2: on one shared MemStore, all the events written and all the handlers
\* dispatched for one timestamp t are the work of one instance, and a check
\* for t that holds the lock after another check for t released it writes
\* no event and dispatches no handler.
C2_SameTimestampFiresOnce ==
    kind = "mem" =>
        /\ \A f, g \in written \cup dispatched : f.on = g.on => f.by = g.by
        /\ \A s \in Schedulers :
               (InCheck(s) /\ on[s] \in released)
                   => (WrittenBy(s) = {} /\ FiredBy(s) = {})

\* Two instances have both finished their check for one timestamp on the
\* MemStore, and handlers were dispatched for it.
C2_Witness ==
    /\ kind = "mem"
    /\ \E s, r \in Schedulers :
         /\ s # r
         /\ on[s] = on[r]
         /\ pc[s] = "ret" /\ pc[r] \in {"ret", "select"}
         /\ \E f \in dispatched : f.on = on[s]

\* C3: a check with timestamp t that follows a check with the same t whose
\* store calls all succeeded, nothing else having changed the store since,
\* writes no event and dispatches no handler, and leaves the events as they
\* were.
C3_CheckIdempotent ==
    \A s \in Schedulers :
        (InCheck(s) /\ second[s])
            => /\ WrittenBy(s) = {}
               /\ FiredBy(s) = {}
               /\ SeqToSet(events) = SeqToSet(eventsAtLock[s])
               /\ Len(events) = Len(eventsAtLock[s])

\* C4: the store never holds two events for one (entry name, minute).
C4_OneEventPerNameAndMinute ==
    \A i, j \in 1..Len(events) :
        (/\ events[i].Entry.Name = events[j].Entry.Name
         /\ MinuteOf(events[i].Time) = MinuteOf(events[j].Time))
            => i = j

\* The positions of the entries a check of s must fire: a non-empty name, a
\* match of on, and no event for (name, minute of on) in the store when the
\* check took the lock.
ShouldFire(s) ==
    {j \in 1..Len(entriesL[s]) :
        LET e == entriesL[s][j]
        IN  /\ e.Name # ""
            /\ Match(e, on[s])
            /\ ~\E v \in SeqToSet(eventsAtLock[s]) :
                    /\ v.Entry.Name = e.Name
                    /\ MinuteOf(v.Time) = MinuteOf(on[s])}

\* C5: a check whose store calls all succeeded has, at the end of its loop,
\* written the event and dispatched the handler for exactly the entries that
\* have a non-empty name, match t and had no event under (name, minute of t).
C5_FiresExactlyTheDue ==
    \A s \in Schedulers :
        (pc[s] = "unlock" /\ clean[s])
            => /\ {f.idx : f \in WrittenBy(s)} = ShouldFire(s)
               /\ {f.idx : f \in FiredBy(s)} = ShouldFire(s)

\* C6: every handler dispatched, and every handler about to be, is for an
\* event {entry, t} that the same check has stored.
C6_MarkerBeforeHandler ==
    /\ \A f \in dispatched : f \in written /\ Stored(f)
    /\ \A s \in Schedulers :
           pc[s] = "go" => (Firing(s, idx[s]) \in written /\ Stored(Firing(s, idx[s])))

\* A handler has been dispatched.
C6_Witness == \E f \in dispatched : Stored(f)

\* What holds of the entries whose AddEvent failed in the check of s: no
\* handler is dispatched for them, and the check returns nil.
FailedNotFired ==
    \A s \in Schedulers :
        /\ \A i \in failedAt[s] : ~\E f \in FiredBy(s) : f.idx = i
        /\ (pc[s] = "ret" /\ failedAt[s] # {}) => checkErr[s] = "nil"

\* C7: the step in which AddEvent fails for an entry hands the error to log
\* (a send on ErrorCh) and dispatches nothing; no handler is dispatched for
\* that entry later in the check, and the check returns nil.
C7_AddEventFailureIsLogged ==
    [][/\ \A s \in Schedulers :
            (failedAt'[s] # failedAt[s] /\ failedAt'[s] # {})
                => /\ ErrorCh' = log(ErrorCh, "failed to store event")
                   /\ ErrorCh' # <<>>
                   /\ dispatched' = dispatched
                   /\ checkErr'[s] = "nil"
       /\ FailedNotFired']_vars

\* A check in which an AddEvent failed has returned nil.
C7_Witness ==
    \E s \in Schedulers :
        pc[s] = "ret" /\ failedAt[s] # {} /\ checkErr[s] = "nil"

\* C8: in a check in which an AddEvent failed, every other entry the loop
\* has passed that has a name, matches on and was not in the map of fired
\* keys has its event stored and its handler dispatched, before or after the
\* entry that failed.
C8_EntriesFireIndependently ==
    \A s \in Schedulers :
        (pc[s] \in {"loop", "unlock"} /\ checkErr[s] = "nil" /\ failedAt[s] # {})
            => \A j \in (1..(idx[s] - 1)) \ failedAt[s] :
                   LET e == entriesL[s][j]
                   IN  (e.Name # "" /\ Due(e, on[s], triggered[s]))
                           => /\ Firing(s, j) \in written
                              /\ Firing(s, j) \in dispatched
                              /\ Stored(Firing(s, j))

\* AddEvent failed for the first entry, and the second has been fired.
C8_Witness ==
    \E s \in Schedulers :
        /\ pc[s] = "unlock"
        /\ failedAt[s] = {1}
        /\ \E f \in FiredBy(s) : f.idx = 2

\* C9: a check that has returned holds the store's lock no more.
C9_LockReleasedOnReturn ==
    \A s \in Schedulers : ~InCheck(s) => (lockOwner # s /\ ~sqlLocked[s])

\* C10: on a MemStore at most one check is between Lock and UnLock, and it
\* is the one that holds the mutex.
C10_OneCheckAtATime ==
    kind = "mem" =>
        \A s, r \in Schedulers :
            InCheck(s) => (lockOwner = s /\ (InCheck(r) => r = s))

\* One check is in its cycle on the MemStore while another waits in Lock.
C10_Witness ==
    /\ kind = "mem"
    /\ \E s, r \in Schedulers : s # r /\ pc[s] = "loop" /\ pc[r] = "lock"

\* Run of s has returned only for a failed Initialize, before any tick, or
\* with nil once ctx was done.
ReturnedForCause(s) ==
    pc[s] = "done" <=>
        \/ runRet[s] = "failed to initialize store" /\ lastMinute[s] = 0
        \/ runRet[s] = "nil" /\ ctxDone

\* C11: the step of Run that follows a failed check (Lock, GetEntries or
\* GetEvents failed) hands the error to log and goes back to the select, Run
\* not returning; Run has returned only after a failed Initialize or, with
\* nil, after the cancellation.
C11_FailedCheckKeepsRunning ==
    [][/\ \A s \in Schedulers :
            (pc[s] = "ret" /\ pc'[s] # "ret" /\ checkErr[s] # "nil")
                => /\ ErrorCh' = log(ErrorCh, "failed to do check")
                   /\ ErrorCh' # <<>>
                   /\ pc'[s] = "select"
                   /\ runRet'[s] = "running"
       /\ \A s \in Schedulers : ReturnedForCause(s)']_vars

\* An instance whose first check failed is in the check of its next tick.
C11_Witness ==
    \E s \in Schedulers :
        /\ lastMinute[s] = 2
        /\ pc[s] = "lock"
        /\ ErrorCh = <<"failed to do check">>
        /\ \A r \in Schedulers \ {s} : pc[r] = "init"

\* C12: an instance whose Initialize failed has returned from Run with the
\* error, has received no tick and called no check, holds no lock and no
\* transaction, has written no event and dispatched no handler.
C12_InitializeFailureEndsRun ==
    \A s \in Schedulers :
        runRet[s] = "failed to initialize store"
            => /\ pc[s] = "done"
               /\ lastMinute[s] = 0 /\ on[s] = NoTime
               /\ lockOwner # s /\ ~sqlLocked[s] /\ ~sqlTx[s]
               /\ \A f \in written \cup dispatched : f.by # s

\* Initialize failed for one instance while another has fired an entry.
C12_Witness ==
    \E s, r \in Schedulers :
        /\ runRet[s] = "failed to initialize store"
        /\ \E f \in dispatched : f.by = r

\* C13: a check that is in progress when ctx is cancelled runs to its end.
\* With a database whose calls never fail while ctx is live (failures = 0),
\* a check that took the lock (ctx was live then) returns nil, with none of
\* its AddEvent calls failed and with its lock released.
C13_CheckInProgressCompletes ==
    failures = 0 =>
        \A s \in Schedulers :
            (pc[s] = "ret" /\ checkErr[s] # "locking store failed")
                => /\ checkErr[s] = "nil"
                   /\ failedAt[s] = {}
                   /\ lockOwner # s /\ ~sqlLocked[s]

\* C14: ErrorCh never holds more than one error, and while it holds one no
\* step changes it but the reader's: log returns the channel as it is, and
\* the step that logs is taken all the same.
C14_ErrorChHoldsOne ==
    [][/\ Len(ErrorCh') <= 1
       /\ ErrorCh # <<>>
            => /\ ErrorCh' = ErrorCh \/ ErrorCh' = <<>>
               /\ log(ErrorCh, "failed to do check") = ErrorCh]_vars

\* The first check of an instance, the others not started: the error of the
\* entry without name is still in ErrorCh after AddEvent failed for the
\* second entry, whose error was dropped.
C14_Witness ==
    \E s \in Schedulers :
        /\ lastMinute[s] = 1
        /\ failedAt[s] = {2}
        /\ pc[s] = "ret"
        /\ ErrorCh = <<"got empty name for an event entry">>
        /\ \A r \in Schedulers \ {s} : pc[r] = "init"

\* C15: whatever handler calls are still in progress, a check whose store
\* calls all succeeded has, at the end of its loop, dispatched the handler
\* of every named entry that matches on and whose key was not among the
\* events read, and of no other; and its UnLock can be taken at once.
C15_HandlersDoNotHoldCheck ==
    \A s \in Schedulers :
        (pc[s] = "unlock" /\ checkErr[s] = "nil" /\ failedAt[s] = {})
            => /\ {f.idx : f \in FiredBy(s)}
                    = {j \in 1..Len(entriesL[s]) :
                          /\ entriesL[s][j].Name # ""
                          /\ Match(entriesL[s][j], on[s])
                          /\ Key(entriesL[s][j].Name, on[s]) \notin triggered[s]}
               /\ ENABLED UnLock(s)

\* Two handler calls for one entry name, dispatched by one instance at one
\* minute and at the next, are in progress, the lock being free.
C15_Witness ==
    \E f, g \in running :
        /\ f.by = g.by
        /\ f.entry.Name = g.entry.Name
        /\ MinuteOf(g.on) = MinuteOf(f.on) + 1
        /\ pc[f.by] = "select"
        /\ lockOwner = NoOne

\* The client's last call was a call of op that returned without an error.
Did(op) == call.op = op /\ call.ok

\* An event as the store contract identifies it: the entry and the instant,
\* whatever the location the time is displayed in.
SameEvent(v, w) == v.Entry = w.Entry /\ TimeEqual(v.Time, w.Time)

\* The lists a and b hold the same events, each as many times.
SameEvents(a, b) ==
    /\ Len(a) = Len(b)
    /\ \A i \in 1..Len(a) :
         Cardinality({j \in 1..Len(a) : SameEvent(a[j], a[i])})
           = Cardinality({j \in 1..Len(b) : SameEvent(b[j], a[i])})

\* The events of evs whose time is on [from, to).
EventsOn(evs, from, to) ==
    LET InRange(v) == from.inst <= v.Time.inst /\ v.Time.inst < to.inst
    IN  SelectSeq(evs, InRange)

\* C16: for every store implementation, GetEvents(from, to) returns exactly
\* the stored events whose time t satisfies from <= t < to: an event at from
\* is returned, an event at to is not.
C16_GetEventsHalfOpen ==
    Did("GetEvents") =>
        SameEvents(call.ret, EventsOn(call.events, call.arg[1], call.arg[2]))

\* GetEvents was asked for a range that has a stored event at its start.
C16_Witness ==
    /\ Did("GetEvents")
    /\ \E v \in SeqToSet(call.events) : TimeEqual(v.Time, call.arg[1])
    /\ TimeBefore(call.arg[1], call.arg[2])

\* The entries of ents that differ from e in the expression text or the name.
EntriesBut(ents, e) ==
    LET Other(v) == v.expression # e.expression \/ v.Name # e.Name
    IN  SelectSeq(ents, Other)

\* C17: DeleteEntry(e) removes every stored entry whose expression text and
\* name both equal e's and no other entry; the entries left keep their order
\* and GetEntries afterwards returns exactly them, each once.
C17_DeleteEntryByExpressionAndName ==
    Did("DeleteEntry") =>
        ImplGetEntries(kind, entries) = EntriesBut(call.entries, call.arg)

\* DeleteEntry was called on a store that held an entry to remove and an
\* entry to keep.
C17_Witness ==
    /\ Did("DeleteEntry")
    /\ EntriesBut(call.entries, call.arg) # <<>>
    /\ EntriesBut(call.entries, call.arg) # call.entries

\* The events of evs at before or later.
EventsFrom(evs, before) ==
    LET Late(v) == v.Time.inst >= before.inst
    IN  SelectSeq(evs, Late)

\* GetEvents returns the event v when asked for a range that starts at v.
Retrievable(v) ==
    \E w \in SeqToSet(ImplGetEvents(kind, events, v.Time, AddMinute(v.Time))) :
        SameEvent(v, w)

\* C18: DeleteEvents(before) removes exactly the stored events strictly
\* earlier than before: the events at before and later are still stored and
\* GetEvents still returns each, and a threshold later than all the events
\* leaves no event.
C18_DeleteEventsStrictlyEarlier ==
    Did("DeleteEvents") =>
        /\ SameEvents(events, EventsFrom(call.events, call.arg))
        /\ \A v \in SeqToSet(EventsFrom(call.events, call.arg)) : Retrievable(v)
        /\ (\A v \in SeqToSet(call.events) : TimeBefore(v.Time, call.arg))
               => events = <<>>

\* DeleteEvents was called with a threshold that an event was stored at and
\* another event was stored before.
C18_Witness ==
    /\ Did("DeleteEvents")
    /\ \E v \in SeqToSet(call.events) : TimeEqual(v.Time, call.arg)
    /\ \E v \in SeqToSet(call.events) : TimeBefore(v.Time, call.arg)

\* C19: Initialize keeps the data and is idempotent: the store holds after
\* the call the entries and events it held before, and a second call would
\* leave it as the first did.
C19_InitializeKeepsData ==
    Did("Initialize") =>
        /\ entries = call.entries
        /\ events = call.events
        /\ ImplInitialize(kind, entries) = entries
        /\ ImplInitialize(kind, events) = events

\* Initialize was called on a store that held an entry and an event.
C19_Witness ==
    /\ Did("Initialize")
    /\ call.entries # <<>>
    /\ call.events # <<>>

\* The values the field f permits.
Permitted(f) == {v \in 0..((Words * WordBits) - 1) : match(f, v)}

\* The numbers a, b and c of the field text a-b/c.
RangeStepOf(s) ==
    LET dash == IndexByte(s, "-")
        slash == IndexByte(s, "/")
    IN  [a |-> Atoi(SubSeq(s, 1, dash - 1)).n,
         b |-> Atoi(SubSeq(s, dash + 1, slash - 1)).n,
         c |-> Atoi(SubSeq(s, slash + 1, Len(s))).n]

\* The client's call compiled a field text a-b/c with min <= a <= b <= max
\* and c >= 1.
CompiledRangeStep ==
    /\ call.op = "parseField"
    /\ LET t == RangeStepOf(call.arg[1])
       IN  /\ call.arg[1] = RangeStep(t.a, t.b, t.c)
           /\ call.arg[2] <= t.a /\ t.a <= t.b /\ t.b <= call.arg[3]
           /\ t.c >= 1

\* C20: for min <= a <= b <= max and c >= 1, compiling a-b/c sets exactly
\* the bits a, a+c, a+2c, ... that are <= b.
C20_RangeWithStep ==
    CompiledRangeStep =>
        LET t == RangeStepOf(call.arg[1])
        IN  /\ call.ret.err = "nil"
            /\ Permitted(call.ret.f)
                 = {v \in (t.a)..(t.b) : (v - t.a) % t.c = 0}

\* 10-30/3 was compiled as a minute field, and permits 10, 13, ..., 28.
C20_Witness ==
    /\ CompiledRangeStep
    /\ call.arg = <<RangeStep(10, 30, 3), 0, 59>>
    /\ Permitted(call.ret.f) = {10, 13, 16, 19, 22, 25, 28}

\* The calendar fields of t in the zone of e are each permitted by the mask
\* of e for that field. 2000-01-01, the day of instant 0, is a Saturday.
PermittedAt(e, t) ==
    LET cm == (t.inst \div SubPerMin) + ZoneOffset(e.Location)
    IN  /\ (cm % 60) \in Permitted(e.minute)
        /\ ((cm \div 60) % 24) \in Permitted(e.hour)
        /\ (1 + (cm \div 1440)) \in Permitted(e.dom)
        /\ (1 + (cm \div 44640)) \in Permitted(e.month)
        /\ ((6 + (cm \div 1440)) % 7) \in Permitted(e.dow)

\* C21: Entry.Match(t) is true exactly when the minute, hour, day of month,
\* month and day of week of t in the entry's time zone are each permitted by
\* the entry's mask for that field, all five at once.
C21_MatchConjunctive ==
    call.op = "Match" => (call.ret.match <=> PermittedAt(call.ret.e, call.arg[4]))

\* An entry matched an instant that the same entry in another time zone does
\* not match.
C21_Witness ==
    /\ call.op = "Match"
    /\ call.ret.match
    /\ \E z \in Zones : ~Match([call.ret.e EXCEPT !.Location = z], call.arg[4])

\* The five masks of an entry, in the order of the fields.
EntryFields(e) == <<e.minute, e.hour, e.dom, e.month, e.dow>>

\* The part without its step suffix.
RangeOf(part) ==
    IF IndexByte(part, "/") > 0 THEN SubSeq(part, 1, IndexByte(part, "/") - 1)
    ELSE part

\* The start of the part is below min, its end above max or its start
\* greater than its end, start and end being what the code reads them as.
OutOfRange(part, min, max) ==
    LET r == RangeOf(part)
        dash == IndexByte(r, "-")
        start == IF dash > 0 THEN SubSeq(r, 1, dash - 1) ELSE r
        end == IF dash > 0 THEN SubSeq(r, dash + 1, Len(r)) ELSE r
    IN  /\ start \notin {<<"*">>, <<"?">>}
        /\ Atoi(start).err = "nil"
        /\ end # <<>> => Atoi(end).err = "nil"
        /\ \/ Atoi(start).n < min
           \/ end # <<>> /\ Atoi(end).n > max
           \/ end # <<>> /\ Atoi(start).n > Atoi(end).n
           \/ end = <<>> /\ Atoi(start).n > max

\* The step suffix of the part, if any, follows '*', '?' or a range and is a
\* number.
StepWellFormed(part) ==
    IndexByte(part, "/") > 0 =>
        /\ \/ RangeOf(part) \in {<<"*">>, <<"?">>}
           \/ IndexByte(RangeOf(part), "-") > 0
        /\ Atoi(SubSeq(part, IndexByte(part, "/") + 1, Len(part))).err = "nil"

\* The parts before the k-th compile, with a step that is not 0.
EarlierPartsFine(s, parts, k, min, max) ==
    \A j \in 1..(k - 1) :
        /\ parsePart(s, parts[j], min, max).err = "nil"
        /\ parsePart(s, parts[j], min, max).interval # 0

\* Parse returned from an expression of five fields: call.arg[1] is the
\* expression.
ParsedFive == call.op = "Parse" /\ call.ret.count = 5

\* The text of the i-th field of the expression handed to Parse.
FieldText(i) == Fields(Chars(call.arg[1]))[i]

StepWithoutRange(part) ==
    /\ IndexByte(part, "/") > 0
    /\ RangeOf(part) \notin {<<"*">>, <<"?">>}
    /\ IndexByte(RangeOf(part), "-") = 0

CountFields(s) ==
    Cardinality({i \in 1..Len(s) :
                    /\ s[i] \notin {" ", "\t", "\n"}
                    /\ i = 1 \/ s[i - 1] \in {" ", "\t", "\n"}})

\* C24: Parse returns without error only for an expression of exactly 5
\* fields; for any other number of fields it returns the count-mismatch
\* error, which tells that number, and an entry with no field compiled.
C24_ExactlyFiveFields ==
    call.op = "Parse" =>
        /\ call.ok => CountFields(Chars(call.arg[1])) = 5
        /\ CountFields(Chars(call.arg[1])) # 5 =>
               /\ call.ret.err = "got want expressions"
               /\ call.ret.count = CountFields(Chars(call.arg[1]))
               /\ \A i \in 1..5 : EntryFields(call.ret.e)[i] = NoBits
        /\ CountFields(Chars(call.arg[1])) = 5 =>
               call.ret.err # "got want expressions"

\* Parse refused an expression of more than 5 fields.
C24_Witness ==
    /\ call.op = "Parse"
    /\ call.ret.err = "got want expressions"
    /\ call.ret.count > 5

\* C25: the field texts '*' and '?' compile to the mask of all ones whatever
\* min and max are, and that mask permits every value from 0 to 63.
C25_WildcardAllOnes ==
    call.op = "parseField" =>
        (TrimSpace(call.arg[1]) \in {<<"*">>, <<"?">>} =>
            /\ call.ret.err = "nil"
            /\ call.ret.f = [k \in 1..Words |-> (2 ^ WordBits) - 1]
            /\ \A v \in 0..63 : match(call.ret.f, v)
            /\ Permitted(call.ret.f) = 0..63)

\* '?' was compiled with bounds that leave values out, and with a min above
\* max as well, and the mask is the one of '*'.
C25_Witness ==
    /\ call.op = "parseField"
    /\ call.arg[1] = <<"?">>
    /\ call.arg[2] > call.arg[3]
    /\ call.ret.f = star

\* The text t is the list of the values of the set vs, in strictly ascending
\* order, joined with commas.
AscendingList(t, vs) ==
    LET parts == Split(t)
    IN  /\ \A k \in 1..Len(parts) : Atoi(parts[k]).err = "nil"
        /\ {Atoi(parts[k]).n : k \in 1..Len(parts)} = vs
        /\ \A k \in 1..(Len(parts) - 1) : Atoi(parts[k]).n < Atoi(parts[k + 1]).n

\* C26: in the text Entry.String gives, a field is '*' exactly when its mask
\* is all ones, and otherwise the list of the set bits of the mask in
\* strictly ascending order, joined with commas.
C26_FormatStarOrList ==
    call.op = "String" =>
        LET texts == Fields(call.ret.string.schedule)
        IN  /\ Len(texts) = 5
            /\ \A i \in 1..5 :
                 /\ texts[i] = <<"*">> <=>
                        EntryFields(call.ret.e)[i] = [k \in 1..Words |-> (2 ^ WordBits) - 1]
                 /\ texts[i] # <<"*">> =>
                        AscendingList(texts[i], Permitted(EntryFields(call.ret.e)[i]))

\* An entry with a wildcard field and a field of several values was printed.
C26_Witness ==
    /\ call.op = "String"
    /\ \E i, j \in 1..5 :
         /\ EntryFields(call.ret.e)[i] = star
         /\ EntryFields(call.ret.e)[j] # star
         /\ Cardinality(Permitted(EntryFields(call.ret.e)[j])) > 1

\* C27: for the documented expression '5 * */5 1-12/2 0-3' the compiled entry
\* permits the days of month 5, 10, 15, 20 and 30, the months 1, 3, ..., 11
\* and the days of week Sunday to Wednesday.
C27_DocumentedExample ==
    (call.op = "Parse" /\ call.arg[1] = "5 * */5 1-12/2 0-3") =>
        /\ call.ok
        /\ Permitted(call.ret.e.dom) = {5, 10, 15, 20, 30}
        /\ Permitted(call.ret.e.month) = {1, 3, 5, 7, 9, 11}
        /\ Permitted(call.ret.e.dow) = {0, 1, 2, 3}

\* The documented expression was parsed: the months and the days of week are
\* the documented ones, the days of month are 1, 6, ..., 31.
C27_Witness ==
    /\ call.op = "Parse"
    /\ call.arg[1] = "5 * */5 1-12/2 0-3"
    /\ call.ok
    /\ Permitted(call.ret.e.minute) = {5}
    /\ Permitted(call.ret.e.dom) = {1, 6, 11, 16, 21, 26, 31}
    /\ Permitted(call.ret.e.month) = {1, 3, 5, 7, 9, 11}
    /\ Permitted(call.ret.e.dow) = {0, 1, 2, 3}

\* C28: Run checks every minute boundary from the one it slept up to, which
\* is minute 0: its first check is for that boundary and each later check is
\* for the minute after the one of the check before.
C28_EveryMinuteChecked ==
    [][\A s \in Schedulers :
           on'[s] # on[s] =>
               MinuteOf(on'[s]) = IF on[s] = NoTime THEN 0 ELSE MinuteOf(on[s]) + 1]_vars

\* The first check of a scheduler is under way, and it is for minute 1: no
\* check was made for the boundary Run slept up to.
C28_Witness ==
    \E s \in Schedulers :
        /\ pc[s] = "lock"
        /\ lastCheck.on = NoTime
        /\ MinuteOf(on[s]) = 1

\* The timestamp is truncated to the minute: no seconds and no fraction of a
\* second.
Truncated(t) == t.inst % SubPerMin = 0

\* C29: the timestamp of every check, which is the lower bound check hands to
\* GetEvents and the time of the events it stores, is truncated to the
\* minute.
C29_TimestampsTruncated ==
    /\ \A s \in Schedulers : on[s] # NoTime => Truncated(on[s])
    /\ \A i \in 1..Len(events) : Truncated(events[i].Time)

\* A check stored an event whose time is not a whole minute.
C29_Witness ==
    \E i \in 1..Len(events) : ~Truncated(events[i].Time)

\* The loop of the check of s is at an entry with an empty name.
AtEmptyName(s) ==
    /\ pc[s] = "loop"
    /\ idx[s] <= Len(entriesL[s])
    /\ entriesL[s][idx[s]].Name = ""

\* C30: the step of check at an entry with an empty name hands the error to
\* log (a send on ErrorCh), stores and dispatches nothing and goes on with
\* the next entry; no event of an entry with an empty name is ever stored and
\* no handler is ever called with an empty name.
C30_EmptyNameNeverFires ==
    [][/\ \A s \in Schedulers :
            (AtEmptyName(s) /\ (idx'[s] # idx[s] \/ pc'[s] # pc[s])) =>
                /\ ErrorCh' = log(ErrorCh, "got empty name for an event entry")
                /\ events' = events
                /\ written' = written
                /\ dispatched' = dispatched
                /\ idx'[s] = idx[s] + 1
                /\ pc'[s] = "loop"
       /\ \A i \in 1..Len(events') : events'[i].Entry.Name # ""
       /\ \A f \in dispatched' \cup running' \cup written' : f.entry.Name # ""]_vars

\* A check skipped the entry with the empty name, which is reported on
\* ErrorCh, and dispatched the handler of the entry after it.
C30_Witness ==
    /\ Len(entries) = 2
    /\ entries[1].Name = ""
    /\ ErrorCh = <<"got empty name for an event entry">>
    /\ \E f \in dispatched : f.idx = 2 /\ f.entry.Name = "A"

\* C31: once ctx is cancelled, a Run that waits in its select starts no
\* check: its next step is the return.
C31_NoCheckAfterCancel ==
    [][\A s \in Schedulers :
           (ctxDone /\ pc[s] = "select" /\ pc'[s] # pc[s]) => pc'[s] = "done"]_vars

\* C32: every bit of the mask of a field text that compiled without error
\* against the bounds min and max lies in min..max.
C32_BitsWithinBounds ==
    (call.op = "parseField" /\ call.ret.err = "nil") =>
        Permitted(call.ret.f) \subseteq (call.arg[2])..(call.arg[3])

\* 2-2/127 was compiled as a day-of-month field without error, and the mask
\* permits 0, a value below min.
C32_Witness ==
    /\ call.op = "parseField"
    /\ call.arg = <<RangeStep(2, 2, MaxInt), 1, 31>>
    /\ call.ret.err = "nil"
    /\ Permitted(call.ret.f) = {0, 2}

\* The client's call compiled a field text that went through the loop over
\* its comma-separated parts.
CompiledParts ==
    /\ call.op = "parseField"
    /\ TrimSpace(call.arg[1]) \notin {<<>>, <<"*">>, <<"?">>}

\* What the loop of parseField gives for the part p as the only part: p is
\* neither trimmed nor taken for the wildcard of a whole field.
OnItsOwn(p, min, max) == parseParts(p, <<p>>, NoBits, min, max)

\* C33 as stated: the mask of a comma-separated field is the OR of the masks
\* parseField gives for each of its parts on its own, '*' and '?' included,
\* and the field fails when a part on its own fails.
C33_UnionOfPartsCompiledAlone ==
    call.op = "parseField" =>
        LET parts == Split(TrimSpace(call.arg[1]))
            alone == [k \in 1..Len(parts) |->
                        parseField(parts[k], call.arg[2], call.arg[3])]
        IN  /\ (\A k \in 1..Len(parts) : alone[k].err = "nil") =>
                   /\ call.ret.err = "nil"
                   /\ Permitted(call.ret.f)
                        = UNION {Permitted(alone[k].f) : k \in 1..Len(parts)}
            /\ (\E k \in 1..Len(parts) : alone[k].err # "nil") =>
                   call.ret.err # "nil"

\* C33: the mask of a field that is not in whole '*' or '?' is the OR of
\* what its comma-separated parts contribute, each taken as the only part
\* of the loop (untrimmed, a part '*' or '?' standing for min..max), in
\* whatever order the parts are; and the field gives no mask when one of its
\* parts gives none.
C33_FieldIsUnionOfParts ==
    CompiledParts =>
        LET parts == Split(TrimSpace(call.arg[1]))
            own == [k \in 1..Len(parts) |->
                      OnItsOwn(parts[k], call.arg[2], call.arg[3])]
        IN  /\ (\A k \in 1..Len(parts) : own[k].err = "nil") =>
                   /\ call.ret.err = "nil"
                   /\ Permitted(call.ret.f)
                        = UNION {Permitted(own[k].f) : k \in 1..Len(parts)}
            /\ (\E k \in 1..Len(parts) : own[k].err # "nil") =>
                   call.ret.err # "nil"

\* 2-6/2,1-3 was compiled as a day-of-week field: the mask is the OR of
\* {2, 4, 6} and {1, 2, 3}.
C33_Witness ==
    /\ CompiledParts
    /\ call.arg = <<(<<"2", "-", "6", "/", "2">> \o <<",">>) \o <<"1", "-", "3">>, 0, 6>>
    /\ call.ret.err = "nil"
    /\ Permitted(call.ret.f) = {1, 2, 3, 4, 6}

\* The client's call compiled a field text v- with min <= v <= max: an
\* integer start, a dash and nothing after the dash.
CompiledOpenRange ==
    /\ call.op = "parseField"
    /\ LET t == TrimSpace(call.arg[1])
       IN  /\ Len(t) >= 2
           /\ t[Len(t)] = "-"
           /\ Atoi(SubSeq(t, 1, Len(t) - 1)).err = "nil"
           /\ call.arg[2] <= Atoi(SubSeq(t, 1, Len(t) - 1)).n
           /\ Atoi(SubSeq(t, 1, Len(t) - 1)).n <= call.arg[3]

\* C34: a part v- with nothing after the dash has its end default to its
\* start, and contributes exactly the bit v.
C34_EndDefaultsToStart ==
    CompiledOpenRange =>
        LET t == TrimSpace(call.arg[1])
        IN  /\ call.ret.err = "nil"
            /\ Permitted(call.ret.f) = {Atoi(SubSeq(t, 1, Len(t) - 1)).n}

\* 5- was compiled as a day-of-month field without error, and the mask
\* permits every day from 5 to 31.
C34_Witness ==
    /\ CompiledOpenRange
    /\ call.arg = << <<"5", "-">>, 1, 31>>
    /\ call.ret.err = "nil"
    /\ Permitted(call.ret.f) = 5..31

\* C35: Parse, and so the compiling of each field, terminates on every
\* expression: a call the client has made and that has not returned yet has
\* its return ahead, with an entry or with an error.
C35_ParseReturns == call.op = "none" => CanReturn

\* The client called Parse with a minute field of step 0: the call has not
\* returned, and no step of it is left that could return.
C35_Witness ==
    /\ call.op = "none"
    /\ call.arg[1] = "*/0 * * * *"
    /\ ~CanReturn

\* The events GetEvents returns to the check of scheduler s that lie in the
\* minute of on, as instants.
ReadInMinuteOfOn(s) ==
    {v \in SeqToSet(StoreGetEvents(kind, events, on[s], AddMinute(on[s]))) :
        v.Time.inst \div SubPerMin = on[s].inst \div SubPerMin}

\* C36: the key check derives from a stored Event equals the key it derives
\* for on whenever both denote the same minute instant, whatever zone the
\* store returns the Event time in.
C36_KeyZoneIndependent ==
    \A s \in Schedulers :
        pc[s] = "loop" =>
            \A v \in ReadInMinuteOfOn(s) :
                Key(v.Entry.Name, v.Time) = Key(v.Entry.Name, on[s])

\* A check on an SqlStore has read the Event of the Jakarta entry for the
\* minute of on, and its key is not the key of on: the entry is due again.
C36_Witness ==
    \E s \in Schedulers :
        /\ kind = "sql"
        /\ pc[s] = "loop"
        /\ \E v \in ReadInMinuteOfOn(s) :
             /\ v.Entry.Name # ""
             /\ v.Time.loc # on[s].loc
             /\ Key(v.Entry.Name, v.Time) # Key(v.Entry.Name, on[s])
             /\ Key(v.Entry.Name, on[s]) \notin triggered[s]
             /\ \E i \in 1..Len(entriesL[s]) :
                  /\ entriesL[s][i].Name = v.Entry.Name
                  /\ Due(entriesL[s][i], on[s], triggered[s])

\* C37: on an SqlStore a Lock that the database does not fail and that ctx
\* does not end succeeds, on the first tick and on every later one: the
\* check goes on to GetEntries.
C37_LockCanBeTakenAgain ==
    [][\A s \in Schedulers :
           (/\ kind = "sql"
            /\ pc[s] = "lock"
            /\ pc'[s] # "lock"
            /\ ~ctxDone
            /\ failures' = failures) => pc'[s] = "getEntries"]_vars

\* A scheduler on an SqlStore whose first check took and released the lock
\* has had the Lock of its next check refused, with no database failure,
\* ctx not done and the tables free.
C37_Witness ==
    \E s \in Schedulers :
        /\ kind = "sql"
        /\ pc[s] = "ret"
        /\ checkErr[s] = "locking store failed"
        /\ failures = 0
        /\ ~ctxDone
        /\ lockOwner = NoOne
        /\ sqlTx[s]
        /\ ~sqlLocked[s]
        /\ released # {}

\* C38: no MemStore data operation of one thread runs while another thread
\* holds the store lock for a check: the client's AddEntry or DeleteEntry is
\* a step taken while no scheduler holds the lock.
C38_NoDataOpUnderLock ==
    [][(call' # call) => lockOwner = NoOne]_vars

\* A scheduler holds the lock and is in the loop over the entries it read,
\* and the client's DeleteEntry has changed the entries of the store since
\* that read.
C38_Witness ==
    \E s \in Schedulers :
        /\ kind = "mem"
        /\ lockOwner = s
        /\ pc[s] = "loop"
        /\ call.op = "DeleteEntry"
        /\ entries = call.entries
        /\ entriesL[s] # entries

\* The lists a and b hold the same entries, each as many times.
SameEntries(a, b) ==
    /\ Len(a) = Len(b)
    /\ \A i \in 1..Len(a) :
         Cardinality({j \in 1..Len(a) : a[j] = a[i]})
           = Cardinality({j \in 1..Len(b) : b[j] = a[i]})

\* C39: after the same calls made under the lock, MemStore and SqlStore
\* return the same entries from GetEntries and the same events from
\* GetEvents, in whatever order.
C39_StoresEquivalent ==
    /\ call.op = "GetEntries" => SameEntries(call.ret[1], call.ret[2])
    /\ call.op = "GetEvents" => SameEvents(call.ret[1], call.ret[2])

\* The same entry was added twice to both stores: GetEntries returns it
\* twice from the MemStore and once from the SqlStore.
C39_Witness ==
    /\ call.op = "GetEntries"
    /\ entries = <<EntryA, EntryA>>
    /\ call.ret[1] = <<EntryA, EntryA>>
    /\ call.ret[2] = <<EntryA>>

====
